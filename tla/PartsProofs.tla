----------------------------- MODULE PartsProofs -----------------------------
(***************************************************************************)
(* Proofs about five smaller parts: Fragments, for any envelopes and any   *)
(* limits; StackSupervisor, for any helpers; EventRouting, for any         *)
(* channels and sessions; SessionStatus, for any sessions and lists; and   *)
(* IrcLink, for any channels.                                              *)
(*                                                                         *)
(* Fragments: what waits under an id is one version's message, short of a  *)
(* part (Waiting); each genuine chunk that it holds has arrived once more  *)
(* than its version was delivered (Credit), so a message that becomes      *)
(* whole has arrived once more in each part; and only Opened adds to the   *)
(* slots and the memory that are taken (Room).                             *)
(*                                                                         *)
(* StackSupervisor: a helper's process is known to its _Supervisor from    *)
(* the moment it lives until _stop_processes has waited for it or run has  *)
(* seen it end (Known), so when run_stack finds no process left, none      *)
(* lives.                                                                  *)
(*                                                                         *)
(* EventRouting: the last news of a session that is on its way is what the *)
(* session does (Latest).  So whoever was there for the session all along  *)
(* (Clear) and has nothing of it to come knows it, be it in its binding,   *)
(* in the answer its worker holds, or in what it has deferred (Knows).     *)
(* Where statuses are reported, only a failed attach discards news; where  *)
(* they are not, channels stay in their order, and whoever heard instead   *)
(* of c is ahead of it, has observed the session, or has yet to fail.  A   *)
(* replay handles what was deferred while newer events come: the last one  *)
(* left to replay is then what there is to know, unless a newer one went   *)
(* past it (passed).  A handler that looks at the queue keeps the channel  *)
(* busy for a while; that claim is told apart from the flag (Flag).        *)
(*                                                                         *)
(* SessionStatus: the last status on its way, to the bridge or to a replay *)
(* of what was deferred, is the session's (NewestComes), and without one   *)
(* the bridge knows it (BusyKnown).  Whatever is held or published, the    *)
(* one of them that is left when the windows have closed is the last that  *)
(* came (AgentsTold, DrawerTold), and a client that was told of the        *)
(* binding is told what changes (ClientTold).  The list that counts is     *)
(* either shown or held, or still to be replayed (AgentsDue).  Of a kind   *)
(* of which a newer event went past an older one nothing is said           *)
(* (OutOfTurn).                                                            *)
(*                                                                         *)
(* IrcLink: a message is numbered as it is published, and numbers rise     *)
(* from what the server has over what is written to what is queued         *)
(* (Numbered).  Nobody publishes in a channel whose close is under way     *)
(* (Hushed), so once the close has its mark in the queue nothing comes     *)
(* after it there, and once it is told nothing is left to say (LastSaid).  *)
(***************************************************************************)
EXTENDS IrcLink, FiniteSetTheorems, WellFoundedInduction, TLAPS

CONSTANTS
    Versions, MaxFragments, MaxInflight, MaxBytes, Timeout, MaxTime,  \* of Fragments
    Order, Restart, MaxExits,                 \* of StackSupervisor
    Sessions, MaxTurns, MaxActions,           \* of EventRouting
    Lists, MaxChanges                         \* of SessionStatus, with Sessions
VARIABLES
    partial, now, arrived, delivered,
    phase, count, process, watch, bridgeTask, asked, living, exits,
    backend, running, born, events, order, binding, observed, busy, attaching, deferred,
    worker, handling, begun, actions, lost, passed,
    status, changes, held, listed, heldList, client, published, due, coming, crossed,
    touched, overtaken

Frag == INSTANCE Fragments
Stack == INSTANCE StackSupervisor WITH bridge <- bridgeTask
Route == INSTANCE EventRouting WITH crossed <- passed
Status == INSTANCE SessionStatus
-----------------------------------------------------------------------------
(* Fragments                                                               *)

\* r is a message of v that still lacks a part; its chunks are v's or damaged.
Waiting(r, v) ==
    \E t \in Nat, D \in SUBSET (1 .. Frag!Parts(v)) : \E c \in [D -> {v.digest, Frag!Damaged}] :
        /\ r = [digest |-> v.digest, parts |-> Frag!Parts(v), bytes |-> v.raw, created |-> t,
                chunks |-> c]
        /\ Cardinality(D) < Frag!Parts(v)

\* What m holds under id i is nothing, or such a message.
Messages(m) ==
    \A i \in Frag!Ids : m[i] = Frag!Nothing \/ \E v \in Frag!Sendable : v.id = i /\ Waiting(m[i], v)

\* m takes no more slots and memory than it may.
Room(m) ==
    /\ IsFiniteSet(Frag!Inflight(m)) /\ Cardinality(Frag!Inflight(m)) <= MaxInflight
    /\ IsFiniteSet(Frag!Reserved(m)) /\ Cardinality(Frag!Reserved(m)) <= MaxBytes

\* m holds part p of v as it was sent.
Holds(m, v, p) ==
    /\ m[v.id] # Frag!Nothing /\ m[v.id].digest = v.digest
    /\ p \in DOMAIN m[v.id].chunks /\ m[v.id].chunks[p] = v.digest

\* A part has arrived as often as it was used, and once more while it waits.
Credit(m) ==
    \A v \in Frag!Sendable : \A p \in 1 .. Frag!Parts(v) :
        LET times == arrived[[v |-> v, part |-> p]]
        IN delivered[v] <= times /\ (Holds(m, v, p) => delivered[v] < times)

Counters ==
    /\ now \in Nat /\ arrived \in [Frag!Pieces -> Nat] /\ delivered \in [Versions -> Nat]
    /\ DOMAIN partial = Frag!Ids

IInv == Counters /\ Messages(partial) /\ Room(partial) /\ Credit(partial)
-----------------------------------------------------------------------------
\* There is one way to count.
LEMMA Counting == \A S : Frag!Cardinality(S) = Cardinality(S)
  BY DEF Frag!Cardinality, Cardinality

\* What fragment_envelope makes of an envelope.
LEMMA PiecesOf ==
  ASSUME Frag!FragmentsBounds, NEW v \in Frag!Sendable
  PROVE  /\ v \in Versions /\ v.id \in Frag!Ids /\ v.raw \in Nat /\ Frag!Parts(v) \in Nat \ {0}
         /\ v.digest # Frag!Damaged
         /\ \A p \in 1 .. Frag!Parts(v) : [v |-> v, part |-> p] \in Frag!Pieces
  BY DEF Frag!FragmentsBounds, Frag!Sendable, Frag!Parts, Frag!Ids, Frag!Pieces

LEMMA PieceOf ==
  ASSUME NEW f \in Frag!Pieces
  PROVE  /\ f.v \in Frag!Sendable /\ f.part \in 1 .. Frag!Parts(f.v)
         /\ f = [v |-> f.v, part |-> f.part]
  BY DEF Frag!Pieces

\* What waits is not nothing, and the parts it has are some of its parts.
LEMMA WaitingShape ==
  ASSUME Frag!FragmentsBounds, NEW v \in Frag!Sendable, NEW r, Waiting(r, v)
  PROVE  /\ r # Frag!Nothing /\ r.digest = v.digest /\ r.parts = Frag!Parts(v) /\ r.bytes = v.raw
         /\ r.created \in Nat
         /\ DOMAIN r.chunks \subseteq 1 .. Frag!Parts(v)
         /\ \A p \in DOMAIN r.chunks : r.chunks[p] \in {v.digest, Frag!Damaged}
         /\ Cardinality(DOMAIN r.chunks) < r.parts
<1>0. PICK t \in Nat, D \in SUBSET (1 .. Frag!Parts(v)) : \E c \in [D -> {v.digest, Frag!Damaged}] :
        /\ r = [digest |-> v.digest, parts |-> Frag!Parts(v), bytes |-> v.raw, created |-> t,
                chunks |-> c]
        /\ Cardinality(D) < Frag!Parts(v)
  BY DEF Waiting
<1>1. PICK c \in [D -> {v.digest, Frag!Damaged}] :
        /\ r = [digest |-> v.digest, parts |-> Frag!Parts(v), bytes |-> v.raw, created |-> t,
                chunks |-> c]
        /\ Cardinality(D) < Frag!Parts(v)
  BY <1>0
<1>2. r # Frag!Nothing
  <2>1. DOMAIN Frag!Nothing = {"digest"} /\ "parts" \in DOMAIN r
    BY <1>1 DEF Frag!Nothing
  <2> QED
    BY <2>1
<1> QED
  BY <1>1, <1>2

\* Messages are forgotten, and the others keep their sizes.
LEMMA RoomShrinks ==
  ASSUME NEW m, NEW n, Frag!FragmentsBounds, Room(m),
         \A i \in Frag!Ids : n[i] = Frag!Nothing \/ (m[i] # Frag!Nothing /\ n[i].bytes = m[i].bytes)
  PROVE  Room(n)
<1>1. Frag!Inflight(n) \subseteq Frag!Inflight(m)
  BY DEF Frag!Inflight
<1>2. Frag!Reserved(n) \subseteq Frag!Reserved(m)
  BY DEF Frag!Reserved, Frag!Inflight
<1>3. /\ IsFiniteSet(Frag!Inflight(n))
      /\ Cardinality(Frag!Inflight(n)) <= Cardinality(Frag!Inflight(m))
      /\ IsFiniteSet(Frag!Reserved(n))
      /\ Cardinality(Frag!Reserved(n)) <= Cardinality(Frag!Reserved(m))
  BY <1>1, <1>2, FS_Subset DEF Room
<1>4. /\ Cardinality(Frag!Inflight(n)) \in Nat /\ Cardinality(Frag!Inflight(m)) \in Nat
      /\ Cardinality(Frag!Reserved(n)) \in Nat /\ Cardinality(Frag!Reserved(m)) \in Nat
  BY <1>3, FS_CardinalityType DEF Room
<1> QED
  BY <1>3, <1>4 DEF Room, Frag!FragmentsBounds

\* A new message takes a slot and its size, which MayOpen has found free.
LEMMA RoomGrows ==
  ASSUME NEW m, NEW n, NEW v \in Frag!Sendable, Frag!FragmentsBounds, Room(m), Frag!MayOpen(m, v),
         m[v.id] = Frag!Nothing, n[v.id] # Frag!Nothing, n[v.id].bytes = v.raw,
         \A i \in Frag!Ids : i # v.id => n[i] = m[i]
  PROVE  Room(n)
<1> DEFINE more == {v.id} \X (1 .. v.raw)
<1>1. v.id \in Frag!Ids /\ v.raw \in Nat
  BY PiecesOf
<1>2. Frag!Inflight(n) = Frag!Inflight(m) \cup {v.id} /\ v.id \notin Frag!Inflight(m)
  BY <1>1 DEF Frag!Inflight
<1>3. Frag!Reserved(n) = Frag!Reserved(m) \cup more
  <2>1. \A i \in Frag!Inflight(m) : n[i].bytes = m[i].bytes
    BY <1>2 DEF Frag!Inflight
  <2> QED
    BY <1>2, <2>1 DEF Frag!Reserved
<1>4. Frag!Reserved(m) \cap more = {}
  BY <1>2 DEF Frag!Reserved
<1>5. IsFiniteSet(more) /\ Cardinality(more) = v.raw
  <2>1. IsFiniteSet({v.id}) /\ Cardinality({v.id}) = 1
    BY FS_Singleton
  <2>2. IsFiniteSet(1 .. v.raw) /\ Cardinality(1 .. v.raw) = v.raw
    BY <1>1, FS_Interval
  <2>3. IsFiniteSet(more) /\ Cardinality(more) = Cardinality({v.id}) * Cardinality(1 .. v.raw)
    BY <2>1, <2>2, FS_Product, Zenon
  <2> QED
    BY <1>1, <2>1, <2>2, <2>3
<1>6. /\ IsFiniteSet(Frag!Inflight(n))
      /\ Cardinality(Frag!Inflight(n)) = Cardinality(Frag!Inflight(m)) + 1
  BY <1>2, FS_AddElement DEF Room
<1>7. /\ IsFiniteSet(Frag!Reserved(n))
      /\ Cardinality(Frag!Reserved(n)) = Cardinality(Frag!Reserved(m)) + v.raw
  <2>1. /\ IsFiniteSet(Frag!Reserved(m) \cup more)
        /\ Cardinality(Frag!Reserved(m) \cup more)
             = Cardinality(Frag!Reserved(m)) + Cardinality(more)
                 - Cardinality(Frag!Reserved(m) \cap more)
    BY <1>5, FS_Union DEF Room
  <2>2. Cardinality(Frag!Reserved(m) \cap more) = 0 /\ Cardinality(Frag!Reserved(m)) \in Nat
    BY <1>4, FS_EmptySet, FS_CardinalityType DEF Room
  <2> QED
    BY <1>1, <1>3, <1>5, <2>1, <2>2
<1>8. Cardinality(Frag!Inflight(m)) \in Nat
  BY FS_CardinalityType DEF Room
<1> QED
  BY <1>6, <1>7, <1>8, Counting DEF Room, Frag!MayOpen, Frag!FragmentsBounds
-----------------------------------------------------------------------------
\* expire only forgets.
LEMMA Expiring ==
  ASSUME Frag!FragmentsBounds, IInv
  PROVE  /\ DOMAIN Frag!Expired = Frag!Ids
         /\ Messages(Frag!Expired) /\ Room(Frag!Expired) /\ Credit(Frag!Expired)
<1>1. \A i \in Frag!Ids : Frag!Expired[i] \in {Frag!Nothing, partial[i]}
  BY DEF Frag!Expired
<1>2. Messages(Frag!Expired)
  BY <1>1 DEF IInv, Messages
<1>3. Room(Frag!Expired)
  BY <1>1, RoomShrinks DEF IInv
<1>4. Credit(Frag!Expired)
  <2>1. \A v \in Frag!Sendable : v.id \in Frag!Ids
    BY PiecesOf
  <2> QED
    BY <1>1, <2>1 DEF IInv, Credit, Holds
<1> QED
  BY <1>2, <1>3, <1>4 DEF Frag!Expired

\* The message a fragment is added to, with what it brings.
With(r, f, chunk) ==
    [r EXCEPT !.chunks = [p \in DOMAIN r.chunks \union {f.part} |->
                              IF p = f.part THEN chunk ELSE r.chunks[p]]]

\* new is r, a message of f.v's, with f's chunk.
Grown(r, f, chunk, new) ==
    /\ r.digest = f.v.digest /\ r.parts = Frag!Parts(f.v) /\ r.bytes = f.v.raw
    /\ new # Frag!Nothing /\ new.digest = f.v.digest /\ new.parts = r.parts /\ new.bytes = r.bytes
    /\ DOMAIN new.chunks = DOMAIN r.chunks \cup {f.part}
    /\ \A p \in DOMAIN new.chunks :
          new.chunks[p] = IF p = f.part THEN chunk ELSE r.chunks[p]
    /\ IF Cardinality(DOMAIN new.chunks) = r.parts
       THEN DOMAIN new.chunks = 1 .. Frag!Parts(f.v)
       ELSE Waiting(new, f.v)

\* A message under the fragment's own metadata: what is not complete waits, and
\* what is has all its parts.
LEMMA Adding ==
  ASSUME Frag!FragmentsBounds,
         NEW f \in Frag!Pieces, NEW chunk \in {f.v.digest, Frag!Damaged}, NEW r,
         \/ Waiting(r, f.v) \/ (r = Frag!Opened(f.v) /\ now \in Nat),
         NEW new, new = With(r, f, chunk)
  PROVE  Grown(r, f, chunk, new)
<1> DEFINE v == f.v
<1>0. v \in Frag!Sendable /\ f.part \in 1 .. Frag!Parts(v) /\ Frag!Parts(v) \in Nat \ {0}
  BY PieceOf, PiecesOf
<1>1. PICK t \in Nat, D \in SUBSET (1 .. Frag!Parts(v)) : \E c \in [D -> {v.digest, Frag!Damaged}] :
         r = [digest |-> v.digest, parts |-> Frag!Parts(v), bytes |-> v.raw, created |-> t,
              chunks |-> c]
  <2>1. CASE Waiting(r, v)
    BY <2>1 DEF Waiting
  <2>2. CASE r = Frag!Opened(v) /\ now \in Nat
    <3>1. [p \in {} |-> Frag!Damaged] \in [{} -> {v.digest, Frag!Damaged}]
      OBVIOUS
    <3> QED
      BY <2>2, <3>1 DEF Frag!Opened
  <2> QED
    BY <2>1, <2>2
<1>2. PICK c \in [D -> {v.digest, Frag!Damaged}] :
         r = [digest |-> v.digest, parts |-> Frag!Parts(v), bytes |-> v.raw, created |-> t,
              chunks |-> c]
  BY <1>1
<1> DEFINE E == D \cup {f.part}
           e == [p \in E |-> IF p = f.part THEN chunk ELSE c[p]]
<1>3. /\ new = [digest |-> v.digest, parts |-> Frag!Parts(v), bytes |-> v.raw, created |-> t,
                chunks |-> e]
      /\ DOMAIN c = D /\ DOMAIN e = E
  BY <1>2 DEF With
<1>4. E \in SUBSET (1 .. Frag!Parts(v)) /\ e \in [E -> {v.digest, Frag!Damaged}]
  BY <1>0
<1>5. new # Frag!Nothing
  <2>1. DOMAIN Frag!Nothing = {"digest"} /\ "parts" \in DOMAIN new
    BY <1>3 DEF Frag!Nothing
  <2> QED
    BY <2>1
<1>6. /\ IsFiniteSet(1 .. Frag!Parts(v)) /\ Cardinality(1 .. Frag!Parts(v)) = Frag!Parts(v)
  BY <1>0, FS_Interval
<1>7. /\ Cardinality(E) \in Nat /\ Cardinality(E) <= Frag!Parts(v)
      /\ Cardinality(E) = Frag!Parts(v) => E = 1 .. Frag!Parts(v)
  <2> DEFINE all == 1 .. Frag!Parts(v)
  <2>1. E \in SUBSET all /\ IsFiniteSet(all) /\ Cardinality(all) = Frag!Parts(v)
    BY <1>4, <1>6
  <2> HIDE DEF all, E
  <2>2. /\ IsFiniteSet(E) /\ Cardinality(E) <= Cardinality(all)
        /\ Cardinality(E) = Cardinality(all) => E = all
    BY <2>1, FS_Subset
  <2>3. Cardinality(E) \in Nat
    BY <2>2, FS_CardinalityType
  <2> QED
    BY <2>1, <2>2, <2>3 DEF all
<1>8. Cardinality(E) # Frag!Parts(v) => Waiting(new, v)
  <2> HIDE DEF E, e, v
  <2>1. SUFFICES ASSUME Cardinality(E) # Frag!Parts(v) PROVE Waiting(new, v)
    OBVIOUS
  <2>2. Cardinality(E) < Frag!Parts(v)
    BY <1>0, <1>7, <2>1
  <2> QED
    BY <1>3, <1>4, <2>2 DEF Waiting
<1>9. /\ r.digest = v.digest /\ r.parts = Frag!Parts(v) /\ r.bytes = v.raw /\ r.chunks = c
      /\ new.digest = v.digest /\ new.parts = Frag!Parts(v) /\ new.bytes = v.raw /\ new.chunks = e
  <2> HIDE DEF e, v
  <2> QED
    BY <1>2, <1>3
<1> QED
  BY <1>3, <1>5, <1>7, <1>8, <1>9 DEF Grown

\* The counters after a fragment has arrived, with a chunk of its sender's or not.
Counted(f, chunk) ==
    /\ arrived' \in [Frag!Pieces -> Nat] /\ \A g \in Frag!Pieces : arrived[g] <= arrived'[g]
    /\ chunk = f.v.digest => arrived[f] < arrived'[f]
    /\ now' = now

LEMMA AddInv ==
  ASSUME Frag!FragmentsBounds, IInv,
         NEW f \in Frag!Pieces, NEW chunk \in {f.v.digest, Frag!Damaged},
         Frag!Add(f, chunk), Counted(f, chunk)
  PROVE  IInv'
<1> DEFINE v == f.v
           i == f.v.id
           m == Frag!Expired
           old == IF m[i] = Frag!Nothing THEN Frag!Opened(v) ELSE m[i]
           new == With(old, f, chunk)
           refused == m[i] = Frag!Nothing /\ ~Frag!MayOpen(m, v)
           clash == \/ <<old.digest, old.parts, old.bytes>> # <<v.digest, Frag!Parts(v), v.raw>>
                    \/ f.part \in DOMAIN old.chunks /\ old.chunks[f.part] # chunk
           complete == Cardinality(DOMAIN new.chunks) = old.parts
           forgotten == [m EXCEPT ![i] = Frag!Nothing]
<1>0. /\ v \in Frag!Sendable /\ v \in Versions /\ i \in Frag!Ids /\ v.digest # Frag!Damaged
      /\ f.part \in 1 .. Frag!Parts(v) /\ f = [v |-> v, part |-> f.part] /\ now \in Nat
      /\ \A w \in Frag!Sendable : w \in Versions /\ w.id \in Frag!Ids
      /\ \A w \in Frag!Sendable : \A p \in 1 .. Frag!Parts(w) :
            [v |-> w, part |-> p] \in Frag!Pieces
  BY PieceOf, PiecesOf DEF IInv, Counters
<1>1. DOMAIN m = Frag!Ids /\ Messages(m) /\ Room(m) /\ Credit(m)
  BY Expiring
<1>2. /\ arrived \in [Frag!Pieces -> Nat] /\ delivered \in [Versions -> Nat]
      /\ arrived' \in [Frag!Pieces -> Nat] /\ \A g \in Frag!Pieces : arrived[g] <= arrived'[g]
      /\ chunk = v.digest => arrived[f] < arrived'[f]
      /\ now' = now
  BY DEF IInv, Counters, Counted
<1>3. \A w \in Frag!Sendable : \A p \in 1 .. Frag!Parts(w) :
         /\ delivered[w] \in Nat /\ delivered[w] <= arrived[[v |-> w, part |-> p]]
         /\ arrived[[v |-> w, part |-> p]] \in Nat
         /\ arrived'[[v |-> w, part |-> p]] \in Nat
         /\ arrived[[v |-> w, part |-> p]] <= arrived'[[v |-> w, part |-> p]]
         /\ delivered[w] <= arrived'[[v |-> w, part |-> p]]
         /\ Holds(m, w, p) => delivered[w] < arrived'[[v |-> w, part |-> p]]
  <2> HIDE DEF m
  <2> TAKE w \in Frag!Sendable
  <2> TAKE p \in 1 .. Frag!Parts(w)
  <2> DEFINE g == [v |-> w, part |-> p]
  <2>1. g \in Frag!Pieces /\ delivered[w] \in Nat /\ arrived[g] \in Nat /\ arrived'[g] \in Nat
    BY <1>0, <1>2
  <2>2. arrived[g] <= arrived'[g]
    BY <1>2, <2>1
  <2>3. delivered[w] <= arrived[g] /\ (Holds(m, w, p) => delivered[w] < arrived[g])
    BY <1>1 DEF Credit
  <2> QED
    BY <2>1, <2>2, <2>3
<1>4. /\ partial' = IF refused THEN m
                    ELSE IF clash THEN forgotten
                    ELSE IF complete THEN forgotten
                    ELSE [m EXCEPT ![i] = new]
      /\ delivered' = IF ~refused /\ ~clash /\ complete /\ Frag!Whole(new)
                      THEN [delivered EXCEPT ![v] = @ + 1] ELSE delivered
  BY Counting DEF Frag!Add, Frag!Done, With
<1> HIDE DEF m
<1>5. DOMAIN forgotten = Frag!Ids /\ Messages(forgotten) /\ Room(forgotten)
  <2>1. \A j \in Frag!Ids : forgotten[j] \in {Frag!Nothing, m[j]}
    BY <1>1
  <2> QED
    BY <1>1, <2>1, RoomShrinks DEF Messages
<1>6. \A w \in Frag!Sendable : \A p \in 1 .. Frag!Parts(w) :
         Holds(forgotten, w, p) => Holds(m, w, p) /\ w.id # i
  BY <1>0, <1>1 DEF Holds
<1>7. SUFFICES ASSUME TRUE
      PROVE  /\ DOMAIN partial' = Frag!Ids /\ delivered' \in [Versions -> Nat]
             /\ Messages(partial') /\ Room(partial')
             /\ \A w \in Frag!Sendable : \A p \in 1 .. Frag!Parts(w) :
                   /\ delivered'[w] <= arrived'[[v |-> w, part |-> p]]
                   /\ Holds(partial', w, p) => delivered'[w] < arrived'[[v |-> w, part |-> p]]
  <2>1. Messages(partial') => Messages(partial)'
    BY DEF Messages, Waiting
  <2>2. Room(partial') => Room(partial)'
    BY DEF Room, Frag!Inflight, Frag!Reserved
  <2>3. \A w, p : Holds(partial', w, p) <=> Holds(partial, w, p)'
    BY DEF Holds
  <2> QED
    BY <1>0, <1>2, <2>1, <2>2, <2>3 DEF IInv, Counters, Credit
<1>8. CASE refused \/ clash
  <2>1. partial' \in {m, forgotten} /\ delivered' = delivered
    BY <1>4, <1>8
  <2>2. \A w \in Frag!Sendable : \A p \in 1 .. Frag!Parts(w) :
           Holds(partial', w, p) => Holds(m, w, p)
    BY <1>6, <2>1
  <2> QED
    BY <1>1, <1>2, <1>3, <1>5, <2>1, <2>2
<1>9. CASE ~refused /\ ~clash
  <2>1. Waiting(old, v) \/ (old = Frag!Opened(v) /\ now \in Nat)
    <3>1. CASE m[i] = Frag!Nothing
      BY <1>0, <3>1
    <3>2. CASE m[i] # Frag!Nothing
      <4>1. PICK w \in Frag!Sendable : w.id = i /\ Waiting(m[i], w)
        BY <1>0, <1>1, <3>2 DEF Messages
      <4>2. w.digest = v.digest
        BY <1>9, <3>2, <4>1, WaitingShape
      <4>3. w = v
        BY <1>0, <4>1, <4>2 DEF Frag!FragmentsBounds
      <4> QED
        BY <3>2, <4>1, <4>3
    <3> QED
      BY <3>1, <3>2
  <2> HIDE DEF old
  <2>2. /\ old.digest = v.digest /\ old.parts = Frag!Parts(v) /\ old.bytes = v.raw
        /\ new # Frag!Nothing
        /\ new.digest = v.digest /\ new.parts = old.parts /\ new.bytes = old.bytes
        /\ DOMAIN new.chunks = DOMAIN old.chunks \cup {f.part}
        /\ \A p \in DOMAIN new.chunks :
              new.chunks[p] = IF p = f.part THEN chunk ELSE old.chunks[p]
        /\ IF complete THEN DOMAIN new.chunks = 1 .. Frag!Parts(v) ELSE Waiting(new, v)
    <3>1. new = With(old, f, chunk)
      OBVIOUS
    <3> HIDE DEF new
    <3>2. Grown(old, f, chunk, new)
      BY <2>1, <3>1, Adding
    <3> QED
      BY <3>2 DEF Grown
  <2> HIDE DEF new
  \* A genuine chunk has arrived once more than v was delivered.
  <2>3. \A p \in DOMAIN new.chunks : p \in 1 .. Frag!Parts(v) /\ new.chunks[p] = v.digest =>
           delivered[v] < arrived'[[v |-> v, part |-> p]]
    <3> SUFFICES ASSUME NEW p \in DOMAIN new.chunks, p \in 1 .. Frag!Parts(v),
                        new.chunks[p] = v.digest
                 PROVE  delivered[v] < arrived'[[v |-> v, part |-> p]]
      OBVIOUS
    <3>1. CASE p = f.part
      <4>1. chunk = v.digest /\ arrived[f] < arrived'[f] /\ f = [v |-> v, part |-> p]
        BY <1>0, <1>2, <2>2, <3>1
      <4> QED
        BY <1>0, <1>3, <4>1
    <3>2. CASE p # f.part
      <4>1. p \in DOMAIN old.chunks /\ old.chunks[p] = v.digest
        BY <2>2, <3>2
      <4>2. Holds(m, v, p)
        BY <1>1, <2>2, <4>1 DEF Holds, old, Frag!Opened
      <4> QED
        BY <1>0, <1>3, <4>2
    <3> QED
      BY <3>1, <3>2
  <2>4. CASE complete
    <3>1. partial' = forgotten
      BY <1>4, <1>9, <2>4
    <3>2. \A w \in Frag!Sendable : \A p \in 1 .. Frag!Parts(w) :
             Holds(partial', w, p) => w # v /\ Holds(m, w, p)
      BY <1>6, <3>1
    <3>3. CASE Frag!Whole(new)
      <4>1. delivered' = [delivered EXCEPT ![v] = @ + 1]
        BY <1>4, <1>9, <2>4, <3>3
      <4>2. \A p \in 1 .. Frag!Parts(v) : delivered[v] + 1 <= arrived'[[v |-> v, part |-> p]]
        BY <1>0, <1>3, <2>2, <2>3, <2>4, <3>3 DEF Frag!Whole
      <4>3. \A w \in Frag!Sendable : w # v => delivered'[w] = delivered[w]
        BY <1>0, <1>2, <4>1
      <4>4. delivered'[v] = delivered[v] + 1 /\ delivered' \in [Versions -> Nat]
        BY <1>0, <1>2, <4>1
      <4>5. \A w \in Frag!Sendable : \A p \in 1 .. Frag!Parts(w) :
               /\ delivered'[w] <= arrived'[[v |-> w, part |-> p]]
               /\ Holds(partial', w, p) => delivered'[w] < arrived'[[v |-> w, part |-> p]]
        BY <1>3, <3>2, <4>2, <4>3, <4>4
      <4> QED
        BY <1>5, <3>1, <4>4, <4>5
    <3>4. CASE ~Frag!Whole(new)
      BY <1>2, <1>3, <1>4, <1>5, <1>9, <2>4, <3>1, <3>2, <3>4
    <3> QED
      BY <3>3, <3>4
  <2>5. CASE ~complete
    <3>1. partial' = [m EXCEPT ![i] = new] /\ delivered' = delivered
      BY <1>4, <1>9, <2>5
    <3>2. /\ DOMAIN partial' = Frag!Ids /\ partial'[i] = new
          /\ \A j \in Frag!Ids : j # i => partial'[j] = m[j]
      BY <1>0, <1>1, <3>1
    <3>3. Messages(partial')
      BY <1>0, <1>1, <2>2, <2>5, <3>2 DEF Messages
    <3>4. Room(partial')
      <4>1. CASE m[i] = Frag!Nothing
        BY <1>0, <1>1, <1>9, <2>2, <3>2, <4>1, RoomGrows
      <4>2. CASE m[i] # Frag!Nothing
        BY <1>0, <1>1, <2>2, <3>2, <4>2, RoomShrinks DEF old
      <4> QED
        BY <4>1, <4>2
    <3>5. \A w \in Frag!Sendable : \A p \in 1 .. Frag!Parts(w) :
             Holds(partial', w, p) => \/ w = v /\ p \in DOMAIN new.chunks /\ new.chunks[p] = v.digest
                                      \/ Holds(m, w, p)
      <4> SUFFICES ASSUME NEW w \in Frag!Sendable, NEW p \in 1 .. Frag!Parts(w),
                          Holds(partial', w, p)
                   PROVE  \/ w = v /\ p \in DOMAIN new.chunks /\ new.chunks[p] = v.digest
                          \/ Holds(m, w, p)
        OBVIOUS
      <4>1. CASE w.id = i
        <5>1. w.digest = v.digest /\ p \in DOMAIN new.chunks /\ new.chunks[p] = w.digest
          BY <2>2, <3>2, <4>1 DEF Holds
        <5>2. w = v
          BY <1>0, <4>1, <5>1 DEF Frag!FragmentsBounds
        <5> QED
          BY <5>1, <5>2
      <4>2. CASE w.id # i
        BY <1>0, <3>2, <4>2 DEF Holds
      <4> QED
        BY <4>1, <4>2
    <3>6. \A w \in Frag!Sendable : \A p \in 1 .. Frag!Parts(w) :
             /\ delivered[w] <= arrived'[[v |-> w, part |-> p]]
             /\ Holds(partial', w, p) => delivered[w] < arrived'[[v |-> w, part |-> p]]
      BY <1>3, <2>3, <3>5
    <3> QED
      BY <1>2, <3>1, <3>2, <3>3, <3>4, <3>6
  <2> QED
    BY <2>4, <2>5
<1> QED
  BY <1>8, <1>9

LEMMA StepInv == ASSUME Frag!FragmentsBounds PROVE IInv /\ [Frag!Next]_(Frag!vars) => IInv'
<1> SUFFICES ASSUME IInv, [Frag!Next]_(Frag!vars) PROVE IInv'
  OBVIOUS
<1>0. now \in Nat /\ arrived \in [Frag!Pieces -> Nat]
  BY DEF IInv, Counters
<1>1. ASSUME NEW f \in Frag!Pieces, Frag!Arrive(f) PROVE IInv'
  BY <1>0, <1>1, AddInv DEF Frag!Arrive, Counted
<1>2. ASSUME NEW f \in Frag!Pieces, Frag!ArriveDamaged(f) PROVE IInv'
  <2>1. f.v.digest # Frag!Damaged
    BY PieceOf, PiecesOf
  <2> QED
    BY <1>0, <1>2, <2>1, AddInv DEF Frag!ArriveDamaged, Counted
<1>3. CASE Frag!Tick \/ UNCHANGED Frag!vars
  <2>1. UNCHANGED <<partial, arrived, delivered>> /\ now' \in Nat
    BY <1>0, <1>3 DEF Frag!Tick, Frag!vars
  <2> QED
    BY <2>1 DEF IInv, Counters, Messages, Waiting, Room, Frag!Inflight, Frag!Reserved, Credit, Holds
<1> QED
  BY <1>1, <1>2, <1>3 DEF Frag!Next

LEMMA InitInv == ASSUME Frag!FragmentsBounds PROVE Frag!Init => IInv
<1> SUFFICES ASSUME Frag!Init PROVE IInv
  OBVIOUS
<1>1. Frag!Inflight(partial) = {} /\ Frag!Reserved(partial) = {}
  BY DEF Frag!Init, Frag!Inflight, Frag!Reserved
<1>2. Room(partial)
  BY <1>1, FS_EmptySet DEF Room, Frag!FragmentsBounds
<1>3. \A v \in Frag!Sendable : v.id \in Frag!Ids /\ v \in Versions
  BY PiecesOf
<1>4. \A v \in Frag!Sendable : \A p \in 1 .. Frag!Parts(v) : [v |-> v, part |-> p] \in Frag!Pieces
  BY PiecesOf
<1> QED
  BY <1>2, <1>3, <1>4 DEF Frag!Init, IInv, Counters, Messages, Credit, Holds

\* Whatever is lost, repeated, reordered, damaged or mixed in under an id, the
\* Reassembler returns only envelopes of which every part arrived, as often as
\* it returns them, and what waits keeps to the limits on its number and size.
THEOREM FragmentsAreHonest ==
  ASSUME Frag!FragmentsBounds
  PROVE  Frag!Spec => []Frag!ReassemblyIsHonest
<1>1. Frag!Init => IInv
  BY InitInv
<1>2. IInv /\ [Frag!Next]_(Frag!vars) => IInv'
  BY StepInv
<1>3. IInv => Frag!ReassemblyIsHonest
  <2> SUFFICES ASSUME IInv PROVE Frag!ReassemblyIsHonest
    OBVIOUS
  <2>1. Frag!DeliveredWasSent
    BY DEF IInv, Credit, Frag!DeliveredWasSent
  <2>2. \A i \in Frag!Inflight(partial) : Cardinality(DOMAIN partial[i].chunks) < partial[i].parts
    BY WaitingShape DEF IInv, Messages, Frag!Inflight
  <2> QED
    BY <2>1, <2>2, Counting DEF Frag!ReassemblyIsHonest, Frag!RoomIsBounded, IInv, Room
<1> QED
  BY <1>1, <1>2, <1>3, PTL DEF Frag!Spec
-----------------------------------------------------------------------------
(* StackSupervisor                                                         *)

StackTypes ==
    /\ phase \in {"starting", "running", "cancelling", "stopping", "stopped"}
    /\ count \in 0 .. Len(Order)
    /\ process \in [Stack!Helpers -> BOOLEAN]
    /\ watch \in [Stack!Helpers -> {"off", "waiting", "backoff", "done"}]
    /\ bridgeTask \in {"off", "up", "ended"}
    /\ asked \subseteq Stack!Helpers \cup {"sent"}
    /\ living \subseteq Stack!Helpers
    /\ exits \in 0 .. MaxExits

\* A process that lives has a supervisor that knows of it ...
Known == \A h \in living : process[h] = TRUE
\* ... and that watches it while the stack runs.
Watched == phase = "running" => \A h \in living : watch[h] = "waiting"
\* run_stack returns when there is nothing left to stop.
Emptied == phase = "stopped" => \A h \in Stack!Helpers : process[h] = FALSE

StackInv == StackTypes /\ Known /\ Watched /\ Emptied
-----------------------------------------------------------------------------
\* _spawn, for a helper of the stack, keeps the supervisor informed.
LEMMA SpawnKnown ==
  ASSUME StackInv, NEW h \in Stack!Helpers, Stack!Spawned(h)
  PROVE  /\ process' \in [Stack!Helpers -> BOOLEAN] /\ living' \subseteq Stack!Helpers
         /\ living' = living \cup {h} /\ Known'
  BY DEF StackInv, StackTypes, Known, Stack!Spawned

LEMMA StartInv ==
  ASSUME Stack!StackBounds, StackInv, Stack!Start
  PROVE  StackInv'
<1> DEFINE h == Order[count + 1]
<1>1. count + 1 \in 1 .. Len(Order) /\ h \in Stack!Helpers
  BY DEF Stack!StackBounds, StackInv, StackTypes, Stack!Start
<1>2. CASE Stack!Spawned(h) /\ count' = count + 1 /\ UNCHANGED <<phase, exits>>
  BY <1>1, <1>2, SpawnKnown
     DEF Stack!StackBounds, StackInv, StackTypes, Watched, Emptied, Stack!Start
<1>3. CASE Stack!Mishap /\ phase' = "stopping" /\ UNCHANGED <<process, living, count>>
  BY <1>3 DEF Stack!StackBounds, StackInv, StackTypes, Known, Watched, Emptied, Stack!Start,
     Stack!Mishap
<1> QED
  BY <1>2, <1>3 DEF Stack!Start

LEMMA WatchersInv ==
  ASSUME Stack!StackBounds, StackInv, NEW h \in Stack!Helpers,
         Stack!Exit(h) \/ Stack!Noticed(h) \/ Stack!Obey(h)
  PROVE  StackInv'
<1> USE DEF StackInv, StackTypes, Known, Watched, Emptied
<1>1. CASE Stack!Exit(h)
  BY <1>1 DEF Stack!StackBounds, Stack!Exit, Stack!Mishap
<1>2. CASE Stack!Noticed(h)
  BY <1>2 DEF Stack!Noticed
<1>3. CASE Stack!Obey(h)
  BY <1>3 DEF Stack!Obey
<1> QED
  BY <1>1, <1>2, <1>3

LEMMA RespawnInv ==
  ASSUME Stack!StackBounds, StackInv, NEW h \in Stack!Helpers, Stack!Respawn(h)
  PROVE  StackInv'
<1>1. CASE Stack!Spawned(h) /\ watch' = [watch EXCEPT ![h] = "waiting"] /\ UNCHANGED exits
  BY <1>1, SpawnKnown DEF StackInv, StackTypes, Watched, Emptied, Stack!Respawn
<1>2. CASE Stack!Mishap /\ UNCHANGED <<process, living, watch>>
  BY <1>2 DEF Stack!StackBounds, StackInv, StackTypes, Known, Watched, Emptied, Stack!Respawn,
     Stack!Mishap
<1> QED
  BY <1>1, <1>2 DEF Stack!Respawn

\* Whichever helper comes next, it is dead when its supervisor lets go of it.
LEMMA ReapInv ==
  ASSUME StackInv, Stack!Reap
  PROVE  StackInv'
<1>1. CASE \E h \in Stack!Helpers : process[h]
  <2>1. PICK h : /\ (h \notin living /\ UNCHANGED living) \/ Stack!Escalates(h)
                 /\ process' = [process EXCEPT ![h] = FALSE] /\ UNCHANGED phase
    BY <1>1 DEF Stack!Reap
  <2>2. living' \subseteq living /\ h \notin living'
    BY <2>1 DEF Stack!Escalates
  <2>3. /\ phase = "stopping" /\ phase' = phase
        /\ UNCHANGED <<count, watch, bridgeTask, asked, exits>>
    BY <2>1 DEF Stack!Reap
  <2>4. StackTypes'
    BY <2>1, <2>2, <2>3 DEF StackInv, StackTypes
  <2>5. Known'
    BY <2>1, <2>2 DEF StackInv, StackTypes, Known
  <2> QED
    BY <2>3, <2>4, <2>5 DEF StackInv, Watched, Emptied
<1>2. CASE ~\E h \in Stack!Helpers : process[h]
  BY <1>2 DEF Stack!Reap, StackInv, StackTypes, Known, Watched, Emptied
<1> QED
  BY <1>1, <1>2

LEMMA StackStep ==
  ASSUME Stack!StackBounds
  PROVE  StackInv /\ [Stack!Next]_(Stack!vars) => StackInv'
<1> SUFFICES ASSUME StackInv, [Stack!Next]_(Stack!vars) PROVE StackInv'
  OBVIOUS
<1>1. CASE \/ Stack!Run \/ Stack!BridgeEnds \/ Stack!Finish
           \/ Stack!Interrupt \/ Stack!Cancelled \/ Stack!Terminate
  BY <1>1 DEF Stack!Run, Stack!BridgeEnds, Stack!Finish, Stack!Interrupt, Stack!Cancelled,
     Stack!Terminate, StackInv, StackTypes, Known, Watched, Emptied
<1>2. CASE UNCHANGED Stack!vars
  BY <1>2 DEF Stack!vars, StackInv, StackTypes, Known, Watched, Emptied
<1> QED
  BY <1>1, <1>2, StartInv, WatchersInv, RespawnInv, ReapInv DEF Stack!Next

\* Whatever ends run_stack, and wherever a _Supervisor is with its restart at
\* the time, no helper process outlives the stack, and while the bridgeTask runs
\* each one that lives is watched: for any helpers, in any order.
THEOREM HelpersHaveOwners ==
  ASSUME Stack!StackBounds
  PROVE  Stack!Spec => []Stack!HelpersAreOwned
<1>1. Stack!Init => StackInv
  BY DEF Stack!StackBounds, Stack!Init, StackInv, StackTypes, Known, Watched, Emptied
<1>2. StackInv /\ [Stack!Next]_(Stack!vars) => StackInv'
  BY StackStep
<1>3. StackInv => Stack!HelpersAreOwned
  BY DEF StackInv, StackTypes, Known, Watched, Emptied, Stack!HelpersAreOwned,
     Stack!NoHelperSurvives, Stack!EveryHelperIsWatched
<1> QED
  BY <1>1, <1>2, <1>3, PTL DEF Stack!Spec
-----------------------------------------------------------------------------
(* EventRouting                                                            *)

\* What Backend.events() yields.
Event == [kind : {"turn", "status"}, sid : born, busy : BOOLEAN]

Shapes ==
    /\ running \subseteq born /\ born \subseteq Sessions
    /\ events \in Seq(Event) /\ order \in Seq(Route!Channels)
    /\ binding \in [Route!Channels -> born \union {Route!NoSession}]
    /\ observed \in [Route!Channels -> SUBSET born]
    /\ busy \in [Route!Channels -> BOOLEAN]
    /\ attaching \in [Route!Channels -> born \union {Route!NoSession}]
    /\ deferred \in [Route!Channels -> Seq(Event)]
    /\ worker \in [Route!Channels ->
                    [pc : {"idle", "attach", "summary", "save", "replay"}, busy : BOOLEAN]]

\* What is handled, and by whom.
Handlers == Route!Channels \union {Route!Loop}
Handling ==
    /\ DOMAIN handling = Handlers
    /\ \A a \in Handlers : handling[a] = Route!Done \/
          handling[a] \in [on : Route!Channels, awaits : {"begun", "ended", "queue", "void"}]

\* Who looks at a channel's queue keeps it busy, and will let go of it.
Claim(c)   == [on |-> c, awaits |-> "queue"]
Claimed(c) == \E a \in Handlers : handling[a] = Claim(c)
Flag(c)    == busy[c] /\ ~Claimed(c)

\* What a channel is bound to, and what its worker is doing.
Whose(c) == IF worker[c].pc = "replay" THEN binding[c] ELSE attaching[c]
RoleOf(c) ==
    /\ attaching[c] # Route!NoSession <=> worker[c].pc \in {"attach", "summary", "save"}
    /\ worker[c].pc = "idle" => worker[c] = Route!Rest
    /\ worker[c].pc = "save" => binding[c] = attaching[c]
    /\ worker[c].pc = "replay" => binding[c] # Route!NoSession
    /\ worker[c].pc # "idle" => c \in Route!ToSet(Static)
    /\ deferred[c] # << >> => worker[c].pc # "idle"
    /\ \A i \in DOMAIN deferred[c] : deferred[c][i].sid = Whose(c)
    /\ handling[c] # Route!Done => worker[c].pc = "replay" /\ handling[c].on = c
    /\ binding[c] # Route!NoSession => binding[c] \in observed[c] /\ c \in Route!ToSet(order)
    /\ binding[c] = Route!NoSession => ~busy[c]
Roles == \A c \in Route!Channels : RoleOf(c)

\* The channels there are.
Present == Route!ToSet(Static) \subseteq Route!ToSet(order) /\ (~Route!Reports => order = Static)

\* The last news of a session is its state.
NoNews(s) == \A i \in DOMAIN events : events[i].sid # s
Latest ==
    \A i \in DOMAIN events :
        /\ ~Route!Reports => events[i].kind = "turn"
        /\ (\A j \in DOMAIN events : i < j => events[j].sid # events[i].sid) =>
              /\ events[i].busy = (events[i].sid \in running)
              /\ Route!Reports => events[i].kind = "status"

\* Nothing of s went elsewhere while c was there for it.
Ahead(d, c) == \E i, j \in DOMAIN order : i < j /\ order[i] = d /\ order[j] = c
Clear(c, s) ==
    IF Route!Reports THEN <<c, s>> \notin lost
    ELSE /\ Route!Foremost(c, s) /\ \A d \in Route!Channels : <<d, s>> \notin lost
         /\ \A d \in Route!Channels : Ahead(d, c) /\ attaching[d] = s => deferred[d] = << >>

\* What c makes of s, now or when it has replayed what is left, unless a newer
\* event went past that.
New(c, s) == IF Whose(c) = s THEN deferred[c] ELSE << >>
Knows(c, s) ==
    /\ New(c, s) = << >> /\ binding[c] = s /\ c \notin passed => (Flag(c) <=> s \in running)
    /\ New(c, s) = << >> /\ attaching[c] = s /\ worker[c].pc = "summary" =>
          (worker[c].busy <=> s \in running)
    /\ New(c, s) # << >> /\ ~(worker[c].pc = "replay" /\ c \in passed) =>
          (Route!Last(New(c, s)).busy <=> s \in running)

Informed == \A c \in Route!Channels, s \in born : Clear(c, s) /\ NoNews(s) => Knows(c, s)

RoutingInv == Shapes /\ Handling /\ Roles /\ Present /\ Latest /\ Informed
-----------------------------------------------------------------------------
\* Nothing is handled anew for a channel.
Unhandled(c) ==
    /\ handling'[c] = handling[c] /\ (c \in passed' <=> c \in passed)
    /\ (Claimed(c)' <=> Claimed(c))

LEMMA NotHandled ==
  ASSUME UNCHANGED <<handling, passed>>
  PROVE  /\ \A c : Unhandled(c)
         /\ Handling => Handling'
  BY DEF Unhandled, Claimed, Handling

\* Who looked at the queue of a channel that is bound anew leaves its flag alone.
LEMMA BoundAnew ==
  ASSUME Route!RoutingBounds, Handling, Roles, NEW c \in Route!Channels,
         worker[c].pc # "replay", Route!Rebound(c)
  PROVE  /\ Handling' /\ handling'[c] = Route!Done /\ ~Claimed(c)' /\ c \notin passed'
         /\ \A d \in Route!Channels : d # c => Unhandled(d)
<1>1. /\ handling' = [a \in Handlers |->
            IF handling[a] = Claim(c) THEN [handling[a] EXCEPT !.awaits = "void"] ELSE handling[a]]
      /\ passed' = passed \ {c}
  BY DEF Route!Rebound, Handling, Claim
<1>2. Claim(c) # Route!Done /\ [Claim(c) EXCEPT !.awaits = "void"] = [on |-> c, awaits |-> "void"]
  BY DEF Claim, Route!Done
<1>3. \A a \in Handlers :
         \/ handling'[a] = handling[a] /\ handling[a] # Claim(c)
         \/ handling[a] = Claim(c) /\ handling'[a] = [on |-> c, awaits |-> "void"]
  BY <1>1, <1>2
<1>4. Handling'
  BY <1>1, <1>3 DEF Handling
<1>5. handling'[c] = Route!Done
  BY <1>2, <1>3 DEF Roles, RoleOf, Handlers
<1>6. ~Claimed(c)'
  BY <1>3 DEF Claimed, Claim
<1>7. ASSUME NEW d \in Route!Channels, d # c
      PROVE  Unhandled(d)
  <2>1. Claim(d) # Claim(c) /\ Claim(d) # [on |-> c, awaits |-> "void"]
    BY <1>7 DEF Claim
  <2>2. Claimed(d)' <=> Claimed(d)
    BY <1>3, <2>1 DEF Claimed
  <2>3. handling[d] # Claim(c)
    BY <1>2, <1>7 DEF Roles, RoleOf, Claim
  <2>4. handling'[d] = handling[d]
    BY <1>3, <2>3 DEF Handlers
  <2> QED
    BY <1>1, <1>7, <2>2, <2>4 DEF Unhandled
<1> QED
  BY <1>1, <1>4, <1>5, <1>6, <1>7

LEMMA NobodysSession == ASSUME Route!RoutingBounds PROVE Route!NoSession \notin Sessions
  BY DEF Route!RoutingBounds

\* Without statuses channels do not come and go, and each has its place.
LEMMA OneIsAhead ==
  ASSUME Route!RoutingBounds, Present, ~Route!Reports, NEW c, NEW d, Ahead(c, d)
  PROVE  ~Ahead(d, c)
  BY DEF Route!RoutingBounds, Present, Ahead, Route!IsInjective

\* What one hears of a session one could have heard before.
LEMMA ClearBefore ==
  ASSUME Route!RoutingBounds, Roles, Present, backend' = backend, ~Route!Reports => order' = order,
         lost \subseteq lost', \A d \in Route!Channels : observed[d] \subseteq observed'[d],
         NEW c \in Route!Channels, NEW s, s # Route!NoSession,
         \A d \in Route!Channels : deferred[d] # << >> /\ attaching[d] = s =>
            \/ deferred'[d] # << >> /\ attaching'[d] = s
            \/ <<d, s>> \in lost'
            \/ s \in observed'[d],
         Clear(c, s)'
  PROVE  Clear(c, s)
<1>1. CASE Route!Reports
  BY <1>1 DEF Clear
<1>2. CASE ~Route!Reports
  <2>0. /\ Route!Foremost(c, s)' /\ \A d \in Route!Channels : <<d, s>> \notin lost'
        /\ \A d \in Route!Channels : Ahead(d, c)' /\ attaching'[d] = s => deferred'[d] = << >>
        /\ \A d, e : Ahead(d, e)' <=> Ahead(d, e)
    BY <1>2 DEF Clear, Ahead, Route!Reports
  <2>1. \A d \in Route!Channels : d # c /\ s \in observed'[d] => Ahead(c, d)
    BY <2>0 DEF Route!Foremost, Ahead
  <2>2. Route!Foremost(c, s)
    <3>1. \A d \in Route!Channels : s \in observed[d] \union {binding[d]} => s \in observed'[d]
      BY DEF Roles, RoleOf
    <3> QED
      BY <2>1, <3>1 DEF Route!Foremost, Ahead
  <2>3. ASSUME NEW d \in Route!Channels, Ahead(d, c), attaching[d] = s, deferred[d] # << >>
        PROVE  FALSE
    <3>1. ~Ahead(c, d)
      BY <1>2, <2>3, OneIsAhead
    <3>2. d # c
      BY <2>3, <3>1
    <3> QED
      BY <2>0, <2>1, <2>3, <3>1, <3>2
  <2> QED
    BY <1>2, <2>0, <2>2, <2>3 DEF Clear
<1> QED
  BY <1>1, <1>2

\* What Begin, End and Release tell.
LEMMA NewsTold ==
  ASSUME Shapes, Latest, NEW s \in born, NEW b \in BOOLEAN, events' = events \o Route!Told(s, b),
         UNCHANGED <<backend, born>>, s \in running' <=> b,
         \A t \in born : t # s => (t \in running' <=> t \in running)
  PROVE  /\ events' \in Seq(Event) /\ Latest'
         /\ \A t : NoNews(t)' => NoNews(t) /\ t # s
<1> DEFINE w == Route!Told(s, b)
<1>1. /\ events \in Seq(Event)
      /\ w \in Seq(Event) /\ Len(w) \in 1 .. 2
      /\ 1 \in DOMAIN w /\ w[1].sid = s /\ w[1].busy = b /\ w[1].kind = "turn"
      /\ Len(w) \in DOMAIN w /\ w[Len(w)].busy = b /\ (Route!Reports => w[Len(w)].kind = "status")
      /\ \A i \in DOMAIN w : w[i].sid = s
      /\ ~Route!Reports => Len(w) = 1
  <2> DEFINE turn   == [kind |-> "turn", sid |-> s, busy |-> b]
             state == [kind |-> "status", sid |-> s, busy |-> b]
  <2>1. /\ turn \in Event /\ turn.kind = "turn" /\ turn.sid = s /\ turn.busy = b
        /\ state \in Event /\ state.kind = "status" /\ state.sid = s /\ state.busy = b
    BY DEF Event
  <2>2. w = IF Route!Reports THEN <<turn, state>> ELSE <<turn>>
    BY DEF Route!Told
  <2>3. events \in Seq(Event)
    BY DEF Shapes
  <2> HIDE DEF turn, state, w
  <2>4. CASE Route!Reports
    BY <2>1, <2>2, <2>3, <2>4
  <2>5. CASE ~Route!Reports
    BY <2>1, <2>2, <2>3, <2>5
  <2> QED
    BY <2>4, <2>5
<1> HIDE DEF w
<1>2. events' = events \o w /\ events' \in Seq(Event) /\ Len(events') = Len(events) + Len(w)
  BY <1>1 DEF w
<1>3. \A i \in DOMAIN events : i \in DOMAIN events' /\ events'[i] = events[i]
  BY <1>1, <1>2
<1>4. \A i \in DOMAIN w : Len(events) + i \in DOMAIN events' /\ events'[Len(events) + i] = w[i]
  BY <1>1, <1>2
<1>5. \A i \in DOMAIN events' : i \in DOMAIN events \/ i - Len(events) \in DOMAIN w
  BY <1>1, <1>2
<1>6. Latest'
  <2> SUFFICES ASSUME NEW i \in DOMAIN events'
               PROVE
        /\ ~Route!Reports => events'[i].kind = "turn"
        /\ (\A j \in DOMAIN events' : i < j => events'[j].sid # events'[i].sid) =>
              /\ events'[i].busy = (events'[i].sid \in running')
              /\ Route!Reports => events'[i].kind = "status"
    BY DEF Latest, Route!Reports
  <2>1. CASE i \in DOMAIN events
    <3>1. events'[i] = events[i] /\ events[i] \in Event
      BY <1>1, <1>3, <2>1
    <3>2. events[i].sid \in born
      BY <3>1 DEF Event
    <3>3. i < Len(events) + 1
      BY <1>1, <2>1
    <3>4. \A j \in DOMAIN events : i < j /\ events[j].sid = events[i].sid =>
             j \in DOMAIN events' /\ events'[j].sid = events'[i].sid
      BY <1>3, <3>1
    <3>5. events'[Len(events) + 1].sid = s /\ Len(events) + 1 \in DOMAIN events'
      BY <1>1, <1>4
    <3> QED
      BY <2>1, <3>1, <3>2, <3>3, <3>4, <3>5 DEF Latest
  <2>2. CASE i - Len(events) \in DOMAIN w
    <3>1. events'[i] = w[i - Len(events)]
      BY <1>1, <1>2, <1>4, <2>2
    <3>2. i # Len(events') => i < Len(events') /\ Len(events') \in DOMAIN events'
      BY <1>1, <1>2
    <3>3. events'[Len(events')] = w[Len(w)]
      BY <1>1, <1>2, <1>4
    <3>4. i = Len(events') => i - Len(events) = Len(w)
      BY <1>1, <1>2
    <3>5. ~Route!Reports => i - Len(events) = 1
      BY <1>1, <2>2
    <3>6. events'[i].sid = s /\ events'[Len(events')].sid = s
      BY <1>1, <2>2, <3>1, <3>3
    <3>7. ~Route!Reports => events'[i].kind = "turn"
      BY <1>1, <3>1, <3>5
    <3>8. CASE i = Len(events')
      BY <1>1, <3>1, <3>4, <3>6, <3>7, <3>8
    <3>9. CASE i # Len(events')
      BY <3>2, <3>6, <3>7, <3>9
    <3> QED
      BY <3>8, <3>9
  <2> QED
    BY <1>5, <2>1, <2>2
<1>7. ASSUME NEW t, NoNews(t)'
      PROVE  NoNews(t) /\ t # s
  <2>1. Len(events) + 1 \in DOMAIN events' /\ events'[Len(events) + 1].sid = s
    BY <1>1, <1>4
  <2>2. \A i \in DOMAIN events' : events'[i].sid # t
    BY <1>7 DEF NoNews
  <2> QED
    BY <1>3, <2>1, <2>2 DEF NoNews
<1> QED
  BY <1>2, <1>6, <1>7

\* A turn begins or ends: nothing is known before it is heard.
LEMMA TurnsInv ==
  ASSUME Route!RoutingBounds, RoutingInv, NEW s \in Sessions, Route!Begin(s) \/ Route!End(s)
  PROVE  RoutingInv'
<1>1. /\ s \in born /\ running' \subseteq born
      /\ \A t \in born : t # s => (t \in running' <=> t \in running)
      /\ UNCHANGED <<backend, born, order, binding, observed, busy, attaching, deferred,
                     worker, handling, passed, lost>>
  BY DEF Route!Begin, Route!End, Route!handlers, RoutingInv, Shapes
<1>2. \E b \in BOOLEAN : events' = events \o Route!Told(s, b) /\ (s \in running' <=> b)
  BY DEF Route!Begin, Route!End
<1>3. /\ events' \in Seq(Event) /\ Latest'
      /\ \A t : NoNews(t)' => NoNews(t) /\ t # s
  BY <1>1, <1>2, NewsTold DEF RoutingInv
<1>4. Shapes' /\ Roles' /\ Present' /\ Handling'
  BY <1>1, <1>3, NotHandled
     DEF RoutingInv, Shapes, Roles, RoleOf, Whose, Present, Event, Route!Reports
<1>5. Informed'
  BY <1>1, <1>3
     DEF RoutingInv, Informed, Clear, Route!Foremost, Ahead, Knows, New, Whose, Flag, Claimed,
         Route!Reports
<1> QED
  BY <1>3, <1>4, <1>5 DEF RoutingInv
\* Of some places there is a first.
LEMMA FirstOf ==
  ASSUME NEW T, T \subseteq Nat, T # {}
  PROVE  \E n \in T : \A k \in T : n <= k
<1>1. \E n \in T : \A k \in T : ~ (<<k, n>> \in OpToRel(<, Nat))
  BY WFMin, NatLessThanWellFounded, Zenon
<1>2. PICK n \in T : \A k \in T : ~ (<<k, n>> \in OpToRel(<, Nat))
  BY <1>1
<1>3. ASSUME NEW k \in T, ~(n <= k)
      PROVE  FALSE
  <2>1. n \in Nat /\ k \in Nat /\ k < n
    BY <1>3
  <2>2. <<k, n>> \in OpToRel(<, Nat)
    BY <2>1 DEF OpToRel
  <2> QED
    BY <1>2, <2>2
<1> QED
  BY <1>3

\* Who hears of a session, if someone has to do with it.
LEMMA SomeoneHears ==
  ASSUME order \in Seq(Route!Channels), NEW s, NEW c \in Route!ToSet(order), Route!Concerned(c, s)
  PROVE  \E d \in Route!ChannelFor(s) :
            d \in Route!Channels /\ Route!Concerned(d, s) /\ (d = c \/ Ahead(d, c))
<1> DEFINE T == {k \in DOMAIN order : Route!Concerned(order[k], s)}
<1>1. PICK n \in DOMAIN order : order[n] = c
  BY DEF Route!ToSet
<1>2. T \subseteq Nat /\ n \in T
  BY <1>1
<1>3. PICK i \in T : \A k \in T : i <= k
  <2> HIDE DEF T
  <2> QED
    BY <1>2, FirstOf
<1>4. i \in DOMAIN order /\ i \in Nat /\ Route!Concerned(order[i], s) /\ i <= n /\ n \in Nat
  BY <1>1, <1>2, <1>3
<1>5. order[i] \in Route!ChannelFor(s)
  BY <1>3, <1>4 DEF Route!ChannelFor
<1>6. order[i] = c \/ Ahead(order[i], c)
  BY <1>1, <1>4 DEF Ahead
<1>7. order[i] \in Route!Channels
  BY <1>4
<1> QED
  BY <1>4, <1>5, <1>6, <1>7

\* The next event is heard, and is the last of its session or not.
LEMMA NextEvent ==
  ASSUME Shapes, Latest, Route!TakeEvent, NEW e, e = Head(events)
  PROVE  /\ e \in Event /\ events' \in Seq(Event) /\ Latest'
         /\ ~Route!Reports => e.kind = "turn"
         /\ \A t : NoNews(t)' /\ e.sid # t => NoNews(t)
         /\ NoNews(e.sid)' => /\ e.busy = (e.sid \in running)
                              /\ Route!Reports => e.kind = "status"
<1>1. /\ events \in Seq(Event) /\ events # << >> /\ events' = Tail(events)
      /\ UNCHANGED <<backend, running>>
  BY DEF Shapes, Route!TakeEvent, Route!session
<1>2. e \in Event /\ events' \in Seq(Event) /\ 1 \in DOMAIN events /\ events[1] = e
  BY <1>1
<1>3. \A i \in DOMAIN events' : i + 1 \in DOMAIN events /\ events'[i] = events[i + 1] /\ i \in Nat
  BY <1>1
<1>4. \A i \in DOMAIN events : i = 1 \/ (i - 1 \in DOMAIN events' /\ events'[i - 1] = events[i])
  BY <1>1
<1>5. DOMAIN events \subseteq Nat \ {0} /\ DOMAIN events' \subseteq Nat \ {0}
  BY <1>1
<1>6. Latest'
  <2> SUFFICES ASSUME NEW i \in DOMAIN events'
               PROVE
        /\ ~Route!Reports => events'[i].kind = "turn"
        /\ (\A j \in DOMAIN events' : i < j => events'[j].sid # events'[i].sid) =>
              /\ events'[i].busy = (events'[i].sid \in running)
              /\ Route!Reports => events'[i].kind = "status"
    BY <1>1 DEF Latest, Route!Reports
  <2>1. i + 1 \in DOMAIN events /\ events'[i] = events[i + 1] /\ i \in Nat \ {0}
    BY <1>3, <1>5
  <2>2. ASSUME \A j \in DOMAIN events' : i < j => events'[j].sid # events'[i].sid,
               NEW j \in DOMAIN events, i + 1 < j
        PROVE  events[j].sid # events[i + 1].sid
    <3>1. j # 1 /\ i < j - 1
      BY <1>5, <2>1, <2>2
    <3>2. j - 1 \in DOMAIN events' /\ events'[j - 1] = events[j]
      BY <1>4, <3>1
    <3> QED
      BY <2>1, <2>2, <3>1, <3>2
  <2> QED
    BY <2>1, <2>2 DEF Latest
<1>7. ASSUME NEW t, NoNews(t)', e.sid # t
      PROVE  NoNews(t)
  <2>1. \A i \in DOMAIN events' : events'[i].sid # t
    BY <1>7 DEF NoNews
  <2> QED
    BY <1>2, <1>4, <1>7, <2>1 DEF NoNews
<1>8. ASSUME NoNews(e.sid)'
      PROVE  e.busy = (e.sid \in running) /\ (Route!Reports => e.kind = "status")
  <2>1. \A j \in DOMAIN events : 1 < j => events[j].sid # events[1].sid
    <3> SUFFICES ASSUME NEW j \in DOMAIN events, 1 < j PROVE events[j].sid # events[1].sid
      OBVIOUS
    <3>1. j - 1 \in DOMAIN events' /\ events'[j - 1] = events[j]
      BY <1>4, <1>5
    <3> QED
      BY <1>2, <1>8, <3>1 DEF NoNews
  <2> QED
    BY <1>2, <2>1 DEF Latest
<1>9. ~Route!Reports => e.kind = "turn"
  BY <1>2 DEF Latest
<1> QED
  BY <1>2, <1>6, <1>7, <1>8, <1>9
\* Where the next event goes.
Defers(c, e) == c \in Route!Reached(e) /\ attaching[c] = e.sid
Hears(c, e)  == c \in Route!Reached(e) /\ attaching[c] # e.sid /\ binding[c] = e.sid

\* A turn reaches one channel.
LEMMA OneHears ==
  ASSUME order \in Seq(Route!Channels), NEW s, NEW c \in Route!ChannelFor(s),
         NEW d \in Route!ChannelFor(s)
  PROVE  c = d
<1>1. PICK i \in DOMAIN order : c = order[i] /\ Route!Concerned(order[i], s)
        /\ \A k \in DOMAIN order : Route!Concerned(order[k], s) => i <= k
  BY DEF Route!ChannelFor
<1>2. PICK j \in DOMAIN order : d = order[j] /\ Route!Concerned(order[j], s)
        /\ \A k \in DOMAIN order : Route!Concerned(order[k], s) => j <= k
  BY DEF Route!ChannelFor
<1> QED
  BY <1>1, <1>2

\* What the handler of an event makes of the flag of a channel, and of others.
LEMMA FlagHeard ==
  ASSUME Route!RoutingBounds, RoutingInv, Route!TakeEvent, NEW e \in Event, e = Head(events)
  PROVE  /\ Handling'
         /\ \A c \in Route!Channels :
               /\ handling'[c] = handling[c]
               /\ busy'[c] \in BOOLEAN /\ (busy'[c] => Hears(c, e) \/ busy[c])
               /\ ~Hears(c, e) => Unhandled(c) /\ (Flag(c)' <=> Flag(c))
               /\ Hears(c, e) /\ c \notin passed' =>
                     deferred[c] = << >> /\ (Flag(c)' <=> e.busy)
               /\ Hears(c, e) /\ deferred[c] # << >> => c \in passed'
<1> USE DEF RoutingInv
<1>1. /\ handling[Route!Loop] = Route!Done
      /\ busy' = [c \in Route!Channels |-> IF Hears(c, e) THEN Route!Heard(e) ELSE busy[c]]
      /\ handling' = [handling EXCEPT ![Route!Loop] =
            IF e.kind = "turn" /\ \E c \in Route!Channels : Hears(c, e)
            THEN Route!Awaits(CHOOSE c \in Route!Channels : Hears(c, e), e) ELSE Route!Done]
      /\ passed' = (passed \ {c \in Route!Channels : Hears(c, e)})
                      \union {c \in Route!Channels : Hears(c, e) /\ Route!Overtakes(c)}
  BY DEF Route!TakeEvent, Hears
<1>2. /\ e.busy \in BOOLEAN /\ Route!Loop \in Handlers /\ Route!Loop \notin Route!Channels
      /\ Route!Channels \subseteq Handlers /\ DOMAIN handling = Handlers
  BY DEF Event, Handlers, Handling, Route!RoutingBounds
<1>3. PICK x : x = CHOOSE c \in Route!Channels : Hears(c, e)
  OBVIOUS
<1>4. ASSUME NEW c \in Route!Channels, Hears(c, e)
      PROVE  x \in Route!Channels /\ Hears(x, e)
  BY <1>3, <1>4
<1>5. /\ \A a \in Handlers : a # Route!Loop => handling'[a] = handling[a]
      /\ handling'[Route!Loop] = IF e.kind = "turn" /\ \E c \in Route!Channels : Hears(c, e)
                                THEN Route!Awaits(x, e) ELSE Route!Done
      /\ DOMAIN handling' = Handlers
  BY <1>1, <1>2, <1>3
<1>6. Handling'
  BY <1>4, <1>5 DEF Handling, Route!Awaits
<1>7. \A c : Claim(c) # Route!Done
  BY DEF Claim, Route!Done
<1>8. \A c \in Route!Channels : handling[c] = Claim(c) => Route!Underway(c, c)
  BY DEF Claim, Route!Underway
<1>9. ASSUME NEW c \in Route!Channels, ~Hears(c, e)
      PROVE  Unhandled(c) /\ (Flag(c)' <=> Flag(c))
  <2>1. handling'[Route!Loop] # Claim(c)
    BY <1>4, <1>5, <1>7, <1>9 DEF Route!Awaits, Claim
  <2>2. Claimed(c)' <=> Claimed(c)
    BY <1>1, <1>5, <1>7, <2>1 DEF Claimed
  <2> QED
    BY <1>1, <1>2, <1>5, <1>9, <2>2 DEF Unhandled, Flag
<1>10. ASSUME NEW c \in Route!Channels, Hears(c, e), c \notin passed'
       PROVE  deferred[c] = << >> /\ (Flag(c)' <=> e.busy)
  <2>1. deferred[c] = << >> /\ ~Route!Underway(c, c)
    BY <1>1, <1>10 DEF Route!Overtakes
  <2>2. ASSUME NEW a \in Handlers, a # Route!Loop
        PROVE  handling'[a] # Claim(c)
    <3>1. a \in Route!Channels /\ handling'[a] = handling[a]
      BY <1>5, <2>2 DEF Handlers
    <3>2. CASE a = c
      BY <1>8, <2>1, <3>1, <3>2
    <3>3. CASE a # c
      BY <1>7, <3>1, <3>3 DEF Roles, RoleOf, Claim
    <3> QED
      BY <3>2, <3>3
  <2>3. Claimed(c)' <=> handling'[Route!Loop] = Claim(c)
    BY <1>2, <2>2 DEF Claimed
  <2>4. busy'[c] = Route!Heard(e)
    BY <1>1, <1>10
  <2>5. CASE e.kind = "turn"
    <3>1. x = c
      <4>1. c \in Route!ChannelFor(e.sid) /\ x \in Route!ChannelFor(e.sid)
        BY <1>4, <1>10, <2>5 DEF Hears, Route!Reached
      <4> QED
        BY <4>1, OneHears DEF Shapes
    <3>2. handling'[Route!Loop] = Route!Awaits(c, e)
      BY <1>5, <1>10, <2>5, <3>1
    <3>3. handling'[Route!Loop] = Claim(c) <=> Route!Drains(e)
      BY <1>7, <2>5, <3>2 DEF Route!Awaits, Route!Drains, Claim
    <3> QED
      BY <1>2, <2>1, <2>3, <2>4, <3>3 DEF Flag, Route!Heard, Route!Drains
  <2>6. CASE e.kind # "turn"
    BY <1>2, <1>5, <1>7, <2>1, <2>3, <2>4, <2>6 DEF Flag, Route!Heard, Route!Drains
  <2> QED
    BY <2>5, <2>6
<1>11. ASSUME NEW c \in Route!Channels
       PROVE  busy'[c] \in BOOLEAN /\ (busy'[c] => Hears(c, e) \/ busy[c])
  <2>1. busy[c] \in BOOLEAN /\ Route!Heard(e) \in BOOLEAN
    BY <1>2 DEF Shapes, Route!Heard, Route!Drains
  <2> QED
    BY <1>1, <2>1
<1> QED
  BY <1>1, <1>2, <1>5, <1>6, <1>9, <1>10, <1>11 DEF Route!Overtakes

LEMMA TakeInv ==
  ASSUME Route!RoutingBounds, RoutingInv, Route!TakeEvent
  PROVE  RoutingInv'
<1>0. PICK e : e = Head(events)
  OBVIOUS
<1>1. /\ e \in Event /\ events' \in Seq(Event) /\ Latest'
      /\ ~Route!Reports => e.kind = "turn"
      /\ \A t : NoNews(t)' /\ e.sid # t => NoNews(t)
      /\ NoNews(e.sid)' => e.busy = (e.sid \in running) /\ (Route!Reports => e.kind = "status")
  BY <1>0, NextEvent DEF RoutingInv
<1>2. /\ deferred' = [c \in Route!Channels |->
            IF Defers(c, e) THEN Append(deferred[c], e) ELSE deferred[c]]
      /\ DOMAIN busy' = Route!Channels /\ busy' = [c \in DOMAIN busy' |-> busy'[c]]
      /\ UNCHANGED <<backend, running, born, order, binding, observed, attaching, worker, lost>>
  BY <1>0 DEF Route!TakeEvent, Route!session, Defers, Hears
<1>3. e.sid \in born /\ e.busy \in BOOLEAN /\ e.sid # Route!NoSession /\ Event' = Event
  BY <1>1, <1>2, NobodysSession DEF Event, RoutingInv, Shapes
<1>31. /\ Handling'
       /\ \A c \in Route!Channels :
               /\ handling'[c] = handling[c]
               /\ busy'[c] \in BOOLEAN /\ (busy'[c] => Hears(c, e) \/ busy[c])
               /\ ~Hears(c, e) => Unhandled(c) /\ (Flag(c)' <=> Flag(c))
               /\ Hears(c, e) /\ c \notin passed' =>
                     deferred[c] = << >> /\ (Flag(c)' <=> e.busy)
               /\ Hears(c, e) /\ deferred[c] # << >> => c \in passed'
  BY <1>0, <1>1, FlagHeard
<1>4. \A c \in Route!Channels : /\ deferred[c] \in Seq(Event) /\ busy[c] \in BOOLEAN
                          /\ deferred'[c] \in Seq(Event) /\ busy'[c] \in BOOLEAN
  BY <1>1, <1>2, <1>3, <1>31 DEF RoutingInv, Shapes
<1>5. ASSUME NEW c \in Route!Channels
      PROVE  \/ ~Defers(c, e) /\ deferred'[c] = deferred[c]
             \/ /\ Defers(c, e) /\ deferred'[c] # << >> /\ Route!Last(deferred'[c]) = e
                /\ \A i \in DOMAIN deferred'[c] :
                      \/ deferred'[c][i] = e
                      \/ i \in DOMAIN deferred[c] /\ deferred'[c][i] = deferred[c][i]
  <2>1. deferred'[c] = IF Defers(c, e) THEN Append(deferred[c], e) ELSE deferred[c]
    BY <1>2
  <2>2. deferred[c] \in Seq(Event) /\ e \in Event
    BY <1>1, <1>4
  <2> QED
    BY <2>1, <2>2 DEF Route!Last
<1>6. Shapes'
  BY <1>1, <1>2, <1>3, <1>4 DEF RoutingInv, Shapes
<1>7. Roles'
  <2> SUFFICES ASSUME NEW c \in Route!Channels
               PROVE  /\ deferred'[c] # << >> => worker[c].pc # "idle"
                      /\ \A i \in DOMAIN deferred'[c] : deferred'[c][i].sid = Whose(c)
                      /\ binding[c] = Route!NoSession => ~busy'[c]
    BY <1>2, <1>31 DEF RoutingInv, Roles, RoleOf, Whose
  <2>1. binding[c] = Route!NoSession => ~busy'[c]
    BY <1>3, <1>31 DEF RoutingInv, Roles, RoleOf, Hears
  <2>2. /\ deferred'[c] # << >> => worker[c].pc # "idle"
        /\ \A i \in DOMAIN deferred'[c] : deferred'[c][i].sid = Whose(c)
    <3>1. CASE ~Defers(c, e) /\ deferred'[c] = deferred[c]
      BY <3>1 DEF RoutingInv, Roles, RoleOf
    <3>2. CASE Defers(c, e)
      <4>1. attaching[c] # Route!NoSession /\ attaching[c] = e.sid
        BY <1>3, <3>2 DEF Defers
      <4>2. Whose(c) = e.sid /\ worker[c].pc # "idle"
        BY <4>1 DEF RoutingInv, Roles, RoleOf, Whose
      <4> QED
        BY <1>5, <3>2, <4>2 DEF RoutingInv, Roles, RoleOf
    <3> QED
      BY <1>5, <3>1, <3>2
  <2> QED
    BY <2>1, <2>2
<1>8. Present'
  BY <1>2 DEF RoutingInv, Present, Route!Reports
<1>9. ASSUME NEW c \in Route!Channels, NEW s \in born, Clear(c, s)', NoNews(s)'
      PROVE  Knows(c, s)'
  <2>1. Clear(c, s)
    <3>1. s # Route!NoSession
      BY NobodysSession DEF RoutingInv, Shapes
    <3>2. \A d \in Route!Channels : deferred[d] # << >> /\ attaching[d] = s =>
             deferred'[d] # << >> /\ attaching'[d] = s
      BY <1>2, <1>5
    <3> QED
      BY <1>2, <1>9, <3>1, <3>2, ClearBefore DEF RoutingInv
  <2>2. CASE e.sid # s
    <3>1. Knows(c, s)
      BY <1>1, <1>9, <2>1, <2>2 DEF RoutingInv, Informed
    <3>2. Whose(c) = s => deferred'[c] = deferred[c]
      <4>1. attaching[c] # Route!NoSession => Whose(c) = attaching[c]
        BY DEF RoutingInv, Roles, RoleOf, Whose
      <4> QED
        BY <1>3, <1>5, <2>2, <4>1 DEF Defers
    <3>3. binding[c] = s => Unhandled(c) /\ (Flag(c)' <=> Flag(c))
      BY <1>31, <2>2 DEF Hears
    <3>4. New(c, s)' = New(c, s) /\ (worker[c].pc = "replay" /\ Whose(c) = s => binding[c] = s)
      BY <1>2, <3>2 DEF New, Whose
    <3>5. New(c, s) # << >> => Whose(c) = s
      BY DEF New
    <3> QED
      BY <1>2, <3>1, <3>3, <3>4, <3>5 DEF Knows, Unhandled
  <2>3. CASE e.sid = s /\ binding[c] # s /\ attaching[c] # s
    <3>1. Whose(c) # s
      BY <2>3 DEF Whose
    <3> QED
      BY <1>2, <2>3, <3>1 DEF Knows, New, Whose
  <2>4. CASE e.sid = s /\ (binding[c] = s \/ attaching[c] = s)
    <3>1. e.busy = (s \in running) /\ (Route!Reports => e.kind = "status")
      BY <1>1, <1>9, <2>4
    <3>2. c \in Route!ToSet(order) /\ Route!Concerned(c, s)
      BY <1>3, <2>4 DEF RoutingInv, Roles, RoleOf, Present, Route!Concerned
    <3>3. c \in Route!Reached(e)
      <4>1. CASE Route!Reports
        BY <3>1, <3>2, <4>1 DEF Route!Reached
      <4>2. CASE ~Route!Reports
        <5>1. PICK d \in Route!ChannelFor(s) :
                 d \in Route!Channels /\ Route!Concerned(d, s) /\ (d = c \/ Ahead(d, c))
          BY <3>2, SomeoneHears DEF RoutingInv, Shapes
        <5>2. d \in Route!Reached(e)
          BY <1>1, <2>4, <4>2, <5>1 DEF Route!Reached
        <5>3. ASSUME Ahead(d, c)
              PROVE  FALSE
          <6>1. ~Ahead(c, d)
            BY <4>2, <5>3, OneIsAhead DEF RoutingInv
          <6>2. d # c
            BY <5>3, <6>1
          <6>3. s \notin observed[d] \union {binding[d]}
            BY <2>1, <4>2, <5>1, <6>1, <6>2 DEF Clear, Route!Foremost, Ahead
          <6>4. attaching[d] = s
            BY <5>1, <6>3 DEF Route!Concerned
          <6>5. deferred'[d] # << >> /\ attaching'[d] = s /\ Ahead(d, c)'
            BY <1>2, <1>5, <2>4, <5>1, <5>2, <5>3, <6>4 DEF Defers, Ahead
          <6> QED
            BY <1>2, <1>9, <4>2, <5>1, <6>5 DEF Clear, Route!Reports
        <5> QED
          BY <5>1, <5>2, <5>3
      <4> QED
        BY <4>1, <4>2
    <3>4. CASE attaching[c] = s
      <4>1. deferred'[c] # << >> /\ Route!Last(deferred'[c]) = e
        BY <1>5, <2>4, <3>3, <3>4 DEF Defers
      <4>2. Whose(c) = s
        BY <1>3, <2>4, <3>4 DEF RoutingInv, Roles, RoleOf, Whose
      <4>3. New(c, s)' = deferred'[c]
        BY <1>2, <4>2 DEF New, Whose
      <4> QED
        BY <1>2, <3>1, <4>1, <4>3 DEF Knows
    <3>5. CASE attaching[c] # s
      <4>1. Hears(c, e)
        BY <2>4, <3>3, <3>5 DEF Hears
      <4>2. deferred'[c] = deferred[c]
        BY <1>5, <2>4, <3>5 DEF Defers
      <4>3. c \notin passed' => New(c, s)' = << >> /\ (Flag(c)' <=> s \in running)
        BY <1>31, <3>1, <4>1, <4>2 DEF New
      <4>4. New(c, s)' # << >> => worker[c].pc = "replay"
        BY <1>2, <3>5 DEF New, Whose
      <4> QED
        BY <1>2, <3>5, <4>3, <4>4 DEF Knows
    <3> QED
      BY <3>4, <3>5
  <2> QED
    BY <2>2, <2>3, <2>4
<1>10. Informed'
  BY <1>2, <1>9 DEF Informed
<1> QED
  BY <1>1, <1>31, <1>6, <1>7, <1>8, <1>10 DEF RoutingInv
\* A step of one channel, of its worker or of its owner.
LEMMA OneChannel ==
  ASSUME Route!RoutingBounds, RoutingInv, NEW c \in Route!Channels,
         backend' = backend, born \subseteq born', Shapes', Handling', Present', Latest', RoleOf(c)',
         ~Route!Reports => order' = order,
         \A d \in Route!Channels : d # c /\ d \in Route!ToSet(order) => d \in Route!ToSet(order'),
         \A s : NoNews(s)' => NoNews(s) /\ (s \in born => (s \in running' <=> s \in running)),
         \A d \in Route!Channels : d # c =>
            /\ binding'[d] = binding[d] /\ observed'[d] = observed[d] /\ busy'[d] = busy[d]
            /\ attaching'[d] = attaching[d] /\ deferred'[d] = deferred[d]
            /\ worker'[d] = worker[d] /\ Unhandled(d),
         lost \subseteq lost', observed[c] \subseteq observed'[c],
         deferred[c] # << >> =>
            \/ deferred'[c] # << >> /\ attaching'[c] = attaching[c]
            \/ <<c, attaching[c]>> \in lost'
            \/ attaching[c] \in observed'[c] \union {Route!NoSession},
         \A s \in born' : Clear(c, s)' /\ NoNews(s)' /\ (s \in born => Knows(c, s))
                             => Knows(c, s)'
  PROVE  RoutingInv'
<1>1. Roles'
  <2>1. ASSUME NEW d \in Route!Channels, d # c
        PROVE  RoleOf(d)'
    BY <2>1 DEF RoutingInv, Roles, RoleOf, Whose, Unhandled
  <2> QED
    BY <2>1 DEF Roles
<1>2. ASSUME NEW d \in Route!Channels, NEW s \in born', Clear(d, s)', NoNews(s)'
      PROVE  Knows(d, s)'
  <2>1. CASE s \in born
    <3>1. Clear(d, s)
      <4>1. s # Route!NoSession
        BY <2>1, NobodysSession DEF RoutingInv, Shapes
      <4>2. \A x \in Route!Channels : observed[x] \subseteq observed'[x]
        OBVIOUS
      <4>3. ASSUME NEW x \in Route!Channels, deferred[x] # << >>, attaching[x] = s
            PROVE  \/ deferred'[x] # << >> /\ attaching'[x] = s
                   \/ <<x, s>> \in lost'
                   \/ s \in observed'[x]
        <5>1. CASE x = c
          BY <4>1, <4>3, <5>1
        <5>2. CASE x # c
          BY <4>3, <5>2
        <5> QED
          BY <5>1, <5>2
      <4> QED
        BY <1>2, <4>1, <4>2, <4>3, ClearBefore DEF RoutingInv
    <3>2. NoNews(s) /\ (s \in running' <=> s \in running)
      BY <1>2, <2>1
    <3>3. Knows(d, s)
      BY <2>1, <3>1, <3>2 DEF RoutingInv, Informed
    <3>4. CASE d = c
      BY <1>2, <3>3, <3>4
    <3>5. CASE d # c
      <4>1. (Flag(d)' <=> Flag(d)) /\ (d \in passed' <=> d \in passed)
        BY <3>5 DEF Flag, Unhandled
      <4>2. New(d, s)' = New(d, s)
        BY <3>5 DEF New, Whose
      <4> QED
        BY <3>2, <3>3, <3>5, <4>1, <4>2 DEF Knows
    <3> QED
      BY <3>4, <3>5
  <2>2. CASE s \notin born
    <3>1. CASE d = c
      BY <1>2, <2>2, <3>1
    <3>2. CASE d # c
      <4>1. s # Route!NoSession
        BY NobodysSession DEF Shapes
      <4>2. binding'[d] # s /\ attaching'[d] # s
        BY <2>2, <3>2, <4>1 DEF RoutingInv, Shapes
      <4> QED
        BY <4>2 DEF Knows, New, Whose
    <3> QED
      BY <3>1, <3>2
  <2> QED
    BY <2>1, <2>2
<1>3. Informed'
  BY <1>2 DEF Informed
<1> QED
  BY <1>1, <1>3 DEF RoutingInv
\* Nothing is told, and no session is new.
Steady == UNCHANGED <<backend, running, born, events, order>>
Untouched == UNCHANGED <<handling, passed>>

LEMMA Quietly ==
  ASSUME RoutingInv, Steady
  PROVE  /\ backend' = backend /\ born' = born /\ order' = order /\ running' = running
         /\ Present' /\ Latest' /\ Event' = Event
         /\ \A s : NoNews(s)' <=> NoNews(s)
         /\ \A s : (s \in running') <=> (s \in running)
  BY DEF RoutingInv, Steady, Present, Latest, NoNews, Event, Route!Reports

LEMMA NothingHandled ==
  ASSUME RoutingInv, Untouched
  PROVE  /\ Handling' /\ handling' = handling /\ passed' = passed
         /\ \A c : Unhandled(c) /\ (Claimed(c)' <=> Claimed(c))
  BY NotHandled DEF RoutingInv, Untouched, Unhandled

LEMMA AttachInv ==
  ASSUME Route!RoutingBounds, RoutingInv, NEW c \in Route!Channels, NEW s \in Sessions,
         Route!Attach(c, s)
  PROVE  RoutingInv'
<1>1. Steady /\ Untouched /\ s \in born /\ s # Route!NoSession /\ UNCHANGED <<binding, observed, busy, lost>>
  BY NobodysSession DEF Route!Attach, Steady, Untouched, Route!session, Route!handlers
<1>2. /\ worker[c] = Route!Rest /\ attaching[c] = Route!NoSession /\ deferred[c] = << >>
      /\ c \in Route!ToSet(Static) /\ worker[c].pc = "idle" /\ handling[c] = Route!Done
  BY DEF Route!Attach, RoutingInv, Roles, RoleOf, Route!Rest
<1>3. /\ worker'[c].pc = "attach" /\ attaching'[c] = s /\ deferred'[c] = << >>
      /\ \A d \in Route!Channels : d # c =>
            /\ worker'[d] = worker[d] /\ attaching'[d] = attaching[d]
            /\ deferred'[d] = deferred[d]
  BY DEF Route!Attach, RoutingInv, Shapes
<1>4. Shapes'
  BY <1>1, <1>2, Quietly DEF Route!Attach, RoutingInv, Shapes, Route!Rest
<1>5. RoleOf(c)'
  BY <1>1, <1>2, <1>3, Quietly, NothingHandled DEF RoutingInv, Roles, RoleOf, Whose
<1>6. \A t \in born : Knows(c, t) => Knows(c, t)'
  BY <1>1, <1>2, <1>3, Quietly, NothingHandled DEF Knows, New, Whose, Flag
<1> QED
  BY <1>1, <1>2, <1>3, <1>4, <1>5, <1>6, Quietly, NothingHandled, OneChannel

LEMMA SummaryInv ==
  ASSUME Route!RoutingBounds, RoutingInv, NEW c \in Route!Channels, Route!Summary(c)
  PROVE  RoutingInv'
<1>1. Steady /\ Untouched /\ UNCHANGED <<binding, observed, busy, attaching, deferred, lost>>
  BY DEF Route!Summary, Steady, Untouched, Route!session, Route!handlers
<1>2. /\ worker[c].pc = "attach" /\ attaching[c] # Route!NoSession
      /\ worker'[c] = [pc |-> "summary", busy |-> attaching[c] \in running]
      /\ \A d \in Route!Channels : d # c => worker'[d] = worker[d]
  BY DEF Route!Summary, RoutingInv, Roles, RoleOf, Shapes
<1>3. Shapes'
  BY <1>1, Quietly DEF Route!Summary, RoutingInv, Shapes
<1>4. RoleOf(c)'
  BY <1>1, <1>2, Quietly, NothingHandled DEF RoutingInv, Roles, RoleOf, Whose
<1>5. ASSUME NEW t \in born, Knows(c, t)
      PROVE  Knows(c, t)'
  <2>1. (Flag(c)' <=> Flag(c)) /\ (c \in passed' <=> c \in passed) /\ (t \in running' <=> t \in running)
    BY <1>1, Quietly, NothingHandled DEF Flag
  <2>2. New(c, t)' = New(c, t)
    BY <1>1, <1>2 DEF New, Whose
  <2>3. attaching[c] = t => (worker'[c].busy <=> t \in running)
    <3>1. worker'[c].busy = (attaching[c] \in running)
      BY <1>2
    <3> QED
      BY <3>1, Zenon
  <2>4. worker[c].pc # "replay" /\ worker'[c].pc # "replay"
    BY <1>2
  <2> QED
    BY <1>1, <1>5, <2>1, <2>2, <2>3, <2>4 DEF Knows
<1> QED
  BY <1>1, <1>2, <1>3, <1>4, <1>5, Quietly, NothingHandled, OneChannel

LEMMA AttachFailsInv ==
  ASSUME Route!RoutingBounds, RoutingInv, NEW c \in Route!Channels, Route!AttachFails(c)
  PROVE  RoutingInv'
<1>1. Steady /\ Untouched /\ UNCHANGED <<binding, observed, busy>>
  BY DEF Route!AttachFails, Steady, Untouched, Route!session, Route!handlers
<1>2. /\ worker[c].pc \in {"attach", "summary"} /\ worker'[c] = Route!Rest /\ attaching'[c] = Route!NoSession /\ deferred'[c] = << >>
      /\ \A d \in Route!Channels : d # c =>
            /\ worker'[d] = worker[d] /\ attaching'[d] = attaching[d]
            /\ deferred'[d] = deferred[d]
      /\ lost \subseteq lost' /\ (deferred[c] # << >> => <<c, attaching[c]>> \in lost')
  BY DEF Route!AttachFails, RoutingInv, Shapes
<1>3. Shapes'
  BY <1>1, Quietly DEF Route!AttachFails, RoutingInv, Shapes, Route!Rest
<1>4. RoleOf(c)'
  BY <1>1, <1>2, Quietly, NothingHandled DEF RoutingInv, Roles, RoleOf, Whose, Route!Rest
<1>5. ASSUME NEW t \in born, Clear(c, t)', Knows(c, t)
      PROVE  Knows(c, t)'
  <2>1. <<c, t>> \notin lost' /\ t # Route!NoSession
    BY <1>5, NobodysSession DEF Clear, RoutingInv, Shapes
  <2>2. (attaching[c] = t => deferred[c] = << >>) /\ Whose(c) = attaching[c]
    BY <1>2, <2>1 DEF Whose
  <2> QED
    BY <1>1, <1>2, <1>5, <2>1, <2>2, Quietly, NothingHandled DEF Knows, New, Whose, Flag, Route!Rest
<1> QED
  BY <1>1, <1>2, <1>3, <1>4, <1>5, Quietly, NothingHandled, OneChannel

LEMMA AttachedInv ==
  ASSUME Route!RoutingBounds, RoutingInv, NEW c \in Route!Channels, Route!Attached(c)
  PROVE  RoutingInv'
<1> DEFINE s == attaching[c]
<1>1. Steady /\ UNCHANGED <<attaching, deferred, lost>>
  BY DEF Route!Attached, Steady, Route!session
<1>2. worker[c].pc = "summary" /\ s \in born /\ s # Route!NoSession /\ c \in Route!ToSet(Static)
  BY NobodysSession DEF Route!Attached, RoutingInv, Roles, RoleOf, Shapes
<1>21. /\ Handling' /\ handling'[c] = Route!Done /\ ~Claimed(c)'
       /\ \A d \in Route!Channels : d # c => Unhandled(d)
  BY <1>2, BoundAnew DEF Route!Attached, RoutingInv
<1>3. /\ worker'[c] = [pc |-> "save", busy |-> worker[c].busy] /\ binding'[c] = s
      /\ busy'[c] = worker[c].busy
      /\ s \in observed'[c] /\ observed[c] \subseteq observed'[c]
      /\ \A d \in Route!Channels : d # c =>
            /\ worker'[d] = worker[d] /\ binding'[d] = binding[d]
            /\ observed'[d] = observed[d] /\ busy'[d] = busy[d]
  BY <1>2 DEF Route!Attached, Route!Observing, RoutingInv, Shapes
<1>4. Shapes'
  <2>1. observed'[c] \subseteq born /\ worker[c].busy \in BOOLEAN
    BY <1>2 DEF Route!Attached, Route!Observing, RoutingInv, Shapes
  <2> QED
    BY <1>1, <1>2, <2>1, Quietly DEF Route!Attached, Route!Observing, RoutingInv, Shapes
<1>5. RoleOf(c)'
  BY <1>1, <1>2, <1>21, <1>3, Quietly DEF RoutingInv, Roles, RoleOf, Whose, Present
<1>6. \A t \in born : Knows(c, t) => Knows(c, t)'
  BY <1>1, <1>2, <1>21, <1>3, Quietly DEF Knows, New, Whose, Flag
<1> QED
  BY <1>1, <1>2, <1>21, <1>3, <1>4, <1>5, <1>6, Quietly, OneChannel

LEMMA SavedInv ==
  ASSUME Route!RoutingBounds, RoutingInv, NEW c \in Route!Channels, Route!Saved(c)
  PROVE  RoutingInv'
<1> DEFINE s == attaching[c]
<1>1. Steady /\ Untouched /\ UNCHANGED <<binding, observed, busy, deferred, lost>>
  BY DEF Route!Saved, Steady, Untouched, Route!session, Route!handlers
<1>2. /\ worker[c].pc = "save" /\ binding[c] = s /\ s \in born /\ s # Route!NoSession
      /\ s \in observed[c] /\ c \in Route!ToSet(order)
  BY NobodysSession DEF Route!Saved, RoutingInv, Roles, RoleOf, Shapes
<1>3. /\ worker'[c] = [worker[c] EXCEPT !.pc = "replay"] /\ attaching'[c] = Route!NoSession
      /\ worker'[c].pc = "replay"
      /\ \A d \in Route!Channels : d # c =>
            worker'[d] = worker[d] /\ attaching'[d] = attaching[d]
  BY DEF Route!Saved, RoutingInv, Shapes
<1>4. Shapes'
  BY <1>1, Quietly DEF Route!Saved, RoutingInv, Shapes
<1>5. Whose(c) = s /\ Whose(c)' = s
  BY <1>1, <1>2, <1>3 DEF Whose
<1>6. RoleOf(c)'
  BY <1>1, <1>2, <1>3, <1>5, Quietly, NothingHandled DEF RoutingInv, Roles, RoleOf
<1>7. \A t \in born : Knows(c, t) => Knows(c, t)'
  BY <1>1, <1>2, <1>3, <1>5, Quietly, NothingHandled DEF Knows, New, Flag
<1> QED
  BY <1>1, <1>2, <1>3, <1>4, <1>6, <1>7, Quietly, NothingHandled, OneChannel

\* One more of the events that were deferred is handled: the last of them says
\* what there is to know, unless a newer one went past it.
LEMMA ReplayedInv ==
  ASSUME Route!RoutingBounds, RoutingInv, NEW c \in Route!Channels, Route!Replay(c)
  PROVE  RoutingInv'
<1> DEFINE e == Head(deferred[c])
<1>1. Steady /\ UNCHANGED <<binding, observed, attaching, worker, lost>>
  BY DEF Route!Replay, Steady, Route!session
<1>2. /\ worker[c].pc = "replay" /\ handling[c] = Route!Done /\ deferred[c] # << >>
      /\ busy' = [busy EXCEPT ![c] = Route!Heard(e)]
      /\ handling' = [handling EXCEPT ![c] = Route!Awaits(c, e)]
      /\ passed' = IF Route!Underway(Route!Loop, c) THEN passed \union {c} ELSE passed
      /\ deferred' = [deferred EXCEPT ![c] = Tail(deferred[c])]
  BY DEF Route!Replay, Route!Replayed
<1>3. /\ deferred[c] \in Seq(Event) /\ e \in Event /\ Tail(deferred[c]) \in Seq(Event)
      /\ deferred'[c] = Tail(deferred[c])
      /\ \A i \in DOMAIN deferred'[c] : deferred'[c][i].sid = Whose(c)
      /\ deferred'[c] = << >> => Route!Last(deferred[c]) = e
      /\ deferred'[c] # << >> => Route!Last(deferred'[c]) = Route!Last(deferred[c])
      /\ \A d \in Route!Channels : d # c => deferred'[d] = deferred[d]
  <2>1. deferred[c] \in Seq(Event) /\ \A i \in DOMAIN deferred[c] : deferred[c][i].sid = Whose(c)
    BY DEF RoutingInv, Shapes, Roles, RoleOf
  <2>2. /\ Len(deferred[c]) \in Nat /\ Len(deferred[c]) >= 1 /\ e = deferred[c][1]
        /\ Len(Tail(deferred[c])) = Len(deferred[c]) - 1
        /\ \A i \in 1 .. Len(deferred[c]) - 1 : Tail(deferred[c])[i] = deferred[c][i + 1]
    BY <1>2, <2>1
  <2>3. deferred'[c] = Tail(deferred[c]) /\ \A d \in Route!Channels : d # c => deferred'[d] = deferred[d]
    BY <1>2 DEF RoutingInv, Shapes
  <2>4. ASSUME Tail(deferred[c]) = << >>
        PROVE  Len(deferred[c]) = 1
    <3> DEFINE w == Tail(deferred[c])
    <3>1. Len(w) = 0
      <4>1. w = << >>
        BY <2>4
      <4> HIDE DEF w
      <4> QED
        BY <4>1
    <3> QED
      BY <2>2, <3>1
  <2>5. ASSUME Tail(deferred[c]) # << >>
        PROVE  Route!Last(Tail(deferred[c])) = Route!Last(deferred[c])
    <3>1. Len(deferred[c]) - 1 \in 1 .. Len(deferred[c]) - 1
      BY <2>1, <2>2, <2>5
    <3> QED
      BY <2>1, <2>2, <3>1 DEF Route!Last
  <2>6. \A i \in DOMAIN Tail(deferred[c]) : Tail(deferred[c])[i].sid = Whose(c)
    BY <1>2, <2>1
  <2> QED
    BY <1>2, <2>1, <2>2, <2>3, <2>4, <2>5, <2>6 DEF Route!Last
<1>4. e.busy \in BOOLEAN /\ c \in Handlers /\ DOMAIN handling = Handlers /\ Route!Loop \in Handlers
  BY <1>3 DEF Event, Handlers, RoutingInv, Handling
<1> HIDE DEF e
<1>5. /\ handling'[c] = Route!Awaits(c, e) /\ DOMAIN handling' = Handlers
      /\ \A a \in Handlers : a # c => handling'[a] = handling[a]
  BY <1>2, <1>4
<1>6. Handling'
  BY <1>4, <1>5 DEF RoutingInv, Handling, Route!Awaits
<1>7. \A d : Claim(d) # Route!Done
  BY DEF Claim, Route!Done
<1>8. ASSUME NEW d \in Route!Channels, d # c
      PROVE  Unhandled(d) /\ busy'[d] = busy[d]
  <2>1. handling'[c] # Claim(d) /\ handling[c] # Claim(d)
    BY <1>2, <1>5, <1>7, <1>8 DEF Route!Awaits, Claim
  <2>2. Claimed(d)' <=> Claimed(d)
    BY <1>5, <2>1 DEF Claimed
  <2>3. d \in Handlers
    BY DEF Handlers
  <2> QED
    BY <1>2, <1>5, <1>8, <2>2, <2>3 DEF Unhandled
<1>9. ASSUME c \notin passed'
      PROVE  c \notin passed /\ (Flag(c)' <=> e.busy)
  <2>1. c \notin passed /\ ~Route!Underway(Route!Loop, c)
    BY <1>2, <1>9
  <2>2. ASSUME NEW a \in Handlers, a # c
        PROVE  handling'[a] # Claim(c)
    <3>1. CASE a = Route!Loop
      BY <1>5, <2>1, <2>2, <3>1 DEF Route!Underway, Claim
    <3>2. CASE a \in Route!Channels
      BY <1>5, <1>7, <2>2, <3>2 DEF RoutingInv, Roles, RoleOf, Claim
    <3> QED
      BY <3>1, <3>2 DEF Handlers
  <2>3. Claimed(c)' <=> handling'[c] = Claim(c)
    BY <1>4, <2>2 DEF Claimed
  <2>4. handling'[c] = Claim(c) <=> Route!Drains(e)
    BY <1>5, <1>7 DEF Route!Awaits, Route!Drains, Claim
  <2>5. busy'[c] = Route!Heard(e)
    BY <1>2 DEF RoutingInv, Shapes
  <2> QED
    BY <1>4, <2>1, <2>3, <2>4, <2>5 DEF Flag, Route!Heard, Route!Drains
<1>10. Shapes'
  <2>1. Route!Heard(e) \in BOOLEAN
    BY <1>4 DEF Route!Heard, Route!Drains
  <2>2. busy' \in [Route!Channels -> BOOLEAN] /\ deferred' \in [Route!Channels -> Seq(Event)]
    BY <1>2, <1>3, <2>1 DEF RoutingInv, Shapes
  <2>3. Shapes /\ born' = born /\ Event' = Event /\ UNCHANGED <<running, events, order>>
    BY <1>1, Quietly DEF Steady, RoutingInv
  <2> QED
    BY <1>1, <2>2, <2>3 DEF Shapes
<1>11. Whose(c)' = Whose(c) /\ Whose(c) = binding[c]
  BY <1>1, <1>2 DEF Whose
<1>12. RoleOf(c)'
  <2>1. handling'[c] # Route!Done => handling'[c].on = c
    BY <1>5 DEF Route!Awaits
  <2> QED
    BY <1>1, <1>2, <1>3, <1>11, <2>1, Quietly DEF RoutingInv, Roles, RoleOf
<1>13. ASSUME NEW t \in born, Knows(c, t)
       PROVE  Knows(c, t)'
  <2>1. CASE binding[c] # t
    BY <1>1, <1>2, <1>11, <1>13, <2>1, Quietly DEF Knows, New
  <2>2. CASE binding[c] = t
    <3>1. New(c, t) = deferred[c] /\ New(c, t)' = deferred'[c]
      BY <1>1, <1>11, <2>2 DEF New
    <3>2. c \notin passed' => (Route!Last(deferred[c]).busy <=> t \in running)
      BY <1>2, <1>9, <1>13, <3>1 DEF Knows
    <3> QED
      BY <1>1, <1>2, <1>3, <1>9, <3>1, <3>2, Quietly DEF Knows
  <2> QED
    BY <2>1, <2>2
<1>14. attaching[c] = Route!NoSession
  BY <1>2 DEF RoutingInv, Roles, RoleOf
<1> QED
  <2>1. \A d \in Route!Channels : d # c =>
            /\ binding'[d] = binding[d] /\ observed'[d] = observed[d] /\ busy'[d] = busy[d]
            /\ attaching'[d] = attaching[d] /\ deferred'[d] = deferred[d]
            /\ worker'[d] = worker[d] /\ Unhandled(d)
    BY <1>1, <1>3, <1>8
  <2> QED
    BY <1>1, <1>6, <1>10, <1>12, <1>13, <1>14, <2>1, Quietly, OneChannel

\* The attach ends when nothing is left to replay.
LEMMA AttachEndsInv ==
  ASSUME Route!RoutingBounds, RoutingInv, NEW c \in Route!Channels, Route!AttachEnds(c)
  PROVE  RoutingInv'
<1>1. Steady /\ Untouched /\ UNCHANGED <<binding, observed, busy, attaching, deferred, lost>>
  BY DEF Route!AttachEnds, Steady, Untouched, Route!session, Route!handlers
<1>2. /\ worker[c].pc = "replay" /\ deferred[c] = << >> /\ handling[c] = Route!Done
      /\ worker'[c] = Route!Rest /\ attaching[c] = Route!NoSession
      /\ \A d \in Route!Channels : d # c => worker'[d] = worker[d]
  BY DEF Route!AttachEnds, RoutingInv, Roles, RoleOf, Shapes
<1>3. Shapes'
  BY <1>1, Quietly DEF Route!AttachEnds, RoutingInv, Shapes, Route!Rest
<1>4. RoleOf(c)'
  BY <1>1, <1>2, Quietly, NothingHandled DEF RoutingInv, Roles, RoleOf, Whose, Route!Rest
<1>5. \A t \in born : Knows(c, t) => Knows(c, t)'
  BY <1>1, <1>2, Quietly, NothingHandled DEF Knows, New, Flag, Route!Rest
<1> QED
  BY <1>1, <1>2, <1>3, <1>4, <1>5, Quietly, NothingHandled, OneChannel

\* A channel that nothing is bound to is not made busy.
FlagStays(c) ==
    /\ busy'[c] \in BOOLEAN /\ (Flag(c)' <=> Flag(c))
    /\ binding[c] = Route!NoSession /\ ~busy[c] => ~busy'[c]

\* A handler that waited goes on: what it says of its channel stays the same.
LEMMA GoesOnHandling ==
  ASSUME Route!RoutingBounds, RoutingInv, NEW a \in Handlers,
         Route!Journaled(a) \/ Route!Drained(a)
  PROVE  RoutingInv'
<1> DEFINE c == handling[a].on
<1>1. /\ Steady
      /\ UNCHANGED <<binding, observed, attaching, deferred, worker, lost, passed>>
  BY DEF Route!Journaled, Route!Drained, Steady, Route!session
<1>2. handling[a] \in [on : Route!Channels, awaits : {"begun", "ended", "queue", "void"}]
  BY DEF Route!Journaled, Route!Drained, RoutingInv, Handling, Route!Done
<1>3. c \in Route!Channels /\ handling[a] = [on |-> c, awaits |-> handling[a].awaits]
  BY <1>2
<1>4. \A d : Claim(d) # Route!Done
  BY DEF Claim, Route!Done
<1>5. \A d \in Route!Channels : busy[d] \in BOOLEAN
  BY DEF RoutingInv, Shapes
<1>6. DOMAIN handling = Handlers
  BY DEF RoutingInv, Handling
<1>7. /\ handling'[a] \in {Route!Done, Claim(c)} /\ DOMAIN handling' = Handlers
      /\ \A b \in Handlers : b # a => handling'[b] = handling[b]
      /\ busy' \in [Route!Channels -> BOOLEAN]
      /\ \A d \in Route!Channels : FlagStays(d)
  <2>1. CASE Route!Journaled(a)
    <3> DEFINE drains == handling[a].awaits = "ended" /\ binding[c] # Route!NoSession /\ ~busy[c]
    <3>1. /\ handling[a].awaits \in {"begun", "ended"}
          /\ handling' = [handling EXCEPT ![a] = IF drains THEN Claim(c) ELSE Route!Done]
          /\ busy' = [busy EXCEPT ![c] = busy[c] \/ drains]
      BY <2>1 DEF Route!Journaled, Claim
    <3>2. drains \in BOOLEAN
      OBVIOUS
    <3>3. drains => binding[c] # Route!NoSession /\ ~busy[c]
      OBVIOUS
    <3> HIDE DEF drains, c
    <3>4. /\ handling'[a] = (IF drains THEN Claim(c) ELSE Route!Done) /\ DOMAIN handling' = Handlers
          /\ \A b \in Handlers : b # a => handling'[b] = handling[b]
      BY <1>6, <3>1
    <3>5. busy' \in [Route!Channels -> BOOLEAN] /\ \A d \in Route!Channels :
             busy'[d] = IF d = c THEN busy[c] \/ drains ELSE busy[d]
      BY <1>3, <3>1, <3>2 DEF RoutingInv, Shapes
    <3>6. \A d : handling[a] # Claim(d)
      BY <3>1 DEF Claim
    <3>7. ASSUME NEW d \in Route!Channels
          PROVE  Flag(d)' <=> Flag(d)
      <4>1. CASE drains /\ d = c
        <5>1. Claimed(d)'
          BY <3>4, <4>1 DEF Claimed
        <5> QED
          BY <3>3, <4>1, <5>1 DEF Flag
      <4>2. CASE ~(drains /\ d = c)
        <5>1. handling'[a] # Claim(d)
          BY <1>4, <3>4, <4>2 DEF Claim
        <5>2. Claimed(d)' <=> Claimed(d)
          BY <3>4, <3>6, <5>1 DEF Claimed
        <5>3. busy'[d] <=> busy[d]
          BY <3>5, <4>2
        <5> QED
          BY <5>2, <5>3 DEF Flag
      <4> QED
        BY <4>1, <4>2
    <3> QED
      <4>1. \A d \in Route!Channels : FlagStays(d)
        BY <3>3, <3>5, <3>7 DEF FlagStays
      <4> QED
        BY <3>2, <3>4, <3>5, <4>1
  <2>2. CASE Route!Drained(a)
    <3>1. /\ handling' = [handling EXCEPT ![a] = Route!Done]
          /\ handling[a].awaits \in {"queue", "void"}
          /\ busy' = [d \in Route!Channels |->
                         busy[d] /\ ~(handling[a].awaits = "queue" /\ d = c)]
      BY <2>2 DEF Route!Drained
    <3> HIDE DEF c
    <3>2. /\ handling'[a] = Route!Done /\ DOMAIN handling' = Handlers
          /\ \A b \in Handlers : b # a => handling'[b] = handling[b]
      BY <1>6, <3>1
    <3>3. ASSUME NEW d \in Route!Channels
          PROVE  Flag(d)' <=> Flag(d)
      <4>1. busy'[d] <=> busy[d] /\ handling[a] # Claim(d)
        <5>1. handling[a] = Claim(d) <=> handling[a].awaits = "queue" /\ d = c
          BY <1>3 DEF Claim
        <5> QED
          BY <3>1, <5>1
      <4>2. Claimed(d) <=> Claimed(d)' \/ handling[a] = Claim(d)
        BY <1>4, <3>2 DEF Claimed
      <4> QED
        BY <4>1, <4>2 DEF Flag
    <3> QED
      <4>1. \A d \in Route!Channels : FlagStays(d)
        BY <1>5, <3>1, <3>3 DEF FlagStays
      <4>2. busy' \in [Route!Channels -> BOOLEAN]
        BY <1>5, <3>1
      <4> QED
        BY <3>2, <4>1, <4>2
  <2> QED
    BY <2>1, <2>2
<1> HIDE DEF c
<1>71. /\ Shapes /\ Roles /\ Informed /\ Present' /\ Latest' /\ Event' = Event
       /\ UNCHANGED <<backend, running, born, events, order>>
       /\ \A s : NoNews(s)' <=> NoNews(s)
  BY <1>1, Quietly DEF RoutingInv, Steady
<1>8. Handling'
  BY <1>3, <1>7 DEF RoutingInv, Handling, Claim
<1>9. Shapes'
  BY <1>1, <1>7, <1>71 DEF Shapes
<1>10. Roles'
  <2> SUFFICES ASSUME NEW d \in Route!Channels PROVE RoleOf(d)'
    BY DEF Roles
  <2>1. handling'[d] # Route!Done => worker[d].pc = "replay" /\ handling'[d].on = d
    <3>1. d \in Handlers
      BY DEF Handlers
    <3>2. CASE d = a
      <4>1. handling[d] # Route!Done /\ c = d
        BY <1>2, <3>2 DEF Route!Journaled, Route!Drained, Route!Done, RoutingInv, Roles, RoleOf, c
      <4> QED
        BY <1>7, <3>2, <4>1 DEF RoutingInv, Roles, RoleOf, Claim
    <3>3. CASE d # a
      BY <1>7, <3>1, <3>3 DEF RoutingInv, Roles, RoleOf
    <3> QED
      BY <3>2, <3>3
  <2> QED
    <3>1. RoleOf(d)
      BY <1>71 DEF Roles
    <3>2. binding[d] = Route!NoSession => ~busy'[d]
      BY <1>7, <3>1 DEF RoleOf, FlagStays
    <3>3. Whose(d)' = Whose(d)
      BY <1>1 DEF Whose
    <3>4. UNCHANGED <<binding, observed, attaching, deferred, worker, order>>
      BY <1>1, <1>71
    <3> QED
      BY <2>1, <3>1, <3>2, <3>3, <3>4 DEF RoleOf
<1>11. Informed'
  <2>1. \A d \in Route!Channels : \A s : /\ Clear(d, s)' <=> Clear(d, s)
                                         /\ New(d, s)' = New(d, s)
    BY <1>1, Quietly DEF Clear, Route!Foremost, Ahead, New, Whose, Route!Reports, Steady
  <2> QED
    <3> SUFFICES ASSUME NEW d \in Route!Channels, NEW s \in born', Clear(d, s)', NoNews(s)'
                 PROVE  Knows(d, s)'
      BY DEF Informed
    <3>1. Knows(d, s)
      BY <1>71, <2>1 DEF Informed
    <3>2. New(d, s)' = New(d, s) /\ UNCHANGED <<binding, attaching, worker, running, passed>>
      BY <1>1, <1>71, <2>1
    <3>3. Flag(d)' <=> Flag(d)
      BY <1>7 DEF FlagStays
    <3> QED
      BY <3>1, <3>2, <3>3 DEF Knows
<1> QED
  BY <1>71, <1>8, <1>9, <1>10, <1>11 DEF RoutingInv

LEMMA DetachInv ==
  ASSUME Route!RoutingBounds, RoutingInv, NEW c \in Route!Channels, Route!Detach(c)
  PROVE  RoutingInv'
<1>1. Steady /\ UNCHANGED <<observed, attaching, deferred, worker, lost>>
  BY DEF Route!Detach, Steady, Route!session
<1>2. /\ worker[c] = Route!Rest /\ worker[c].pc = "idle" /\ deferred[c] = << >> /\ binding'[c] = Route!NoSession /\ busy'[c] = FALSE
      /\ \A d \in Route!Channels : d # c => binding'[d] = binding[d] /\ busy'[d] = busy[d]
  BY DEF Route!Detach, RoutingInv, Shapes, Roles, RoleOf, Route!Rest
<1>21. /\ Handling' /\ handling'[c] = Route!Done /\ ~Claimed(c)'
       /\ \A d \in Route!Channels : d # c => Unhandled(d)
  BY <1>2, BoundAnew DEF Route!Detach, RoutingInv
<1>3. Shapes'
  BY <1>1, Quietly DEF Route!Detach, RoutingInv, Shapes
<1>4. RoleOf(c)'
  BY <1>1, <1>2, <1>21, Quietly DEF RoutingInv, Roles, RoleOf, Whose
<1>5. \A t \in born : Knows(c, t) => Knows(c, t)'
  BY <1>1, <1>2, Quietly, NobodysSession DEF Knows, New, RoutingInv, Shapes
<1> QED
  BY <1>1, <1>2, <1>21, <1>3, <1>4, <1>5, Quietly, OneChannel
\* Where a new session's channel stands with it.
LEMMA CreateHereInv ==
  ASSUME Route!RoutingBounds, RoutingInv, NEW c \in Route!Channels, NEW s \in Sessions,
         Route!CreateHere(c, s)
  PROVE  RoutingInv'
<1>1. /\ UNCHANGED <<backend, running, events, order, attaching, deferred, worker, lost>>
      /\ s \notin born /\ born' = born \union {s} /\ c \in Route!ToSet(Static)
      /\ s # Route!NoSession
  BY NobodysSession DEF Route!CreateHere
<1>2. /\ worker[c] = Route!Rest /\ worker[c].pc = "idle" /\ deferred[c] = << >>
      /\ attaching[c] = Route!NoSession
      /\ binding'[c] = s /\ busy'[c] = FALSE
      /\ s \in observed'[c] /\ observed[c] \subseteq observed'[c] /\ observed'[c] \subseteq born'
      /\ \A d \in Route!Channels : d # c =>
            /\ binding'[d] = binding[d] /\ observed'[d] = observed[d]
            /\ busy'[d] = busy[d]
  <2>1. /\ worker[c] = Route!Rest /\ worker[c].pc = "idle" /\ deferred[c] = << >>
        /\ attaching[c] = Route!NoSession
    BY DEF Route!CreateHere, RoutingInv, Roles, RoleOf, Route!Rest
  <2>2. /\ observed' = [observed EXCEPT ![c] = @ \union ({binding[c], s} \ {Route!NoSession})]
        /\ binding' = [binding EXCEPT ![c] = s] /\ busy' = [busy EXCEPT ![c] = FALSE]
    BY DEF Route!CreateHere, Route!Observing
  <2>3. /\ binding \in [Route!Channels -> born \union {Route!NoSession}]
        /\ observed \in [Route!Channels -> SUBSET born]
        /\ busy \in [Route!Channels -> BOOLEAN]
    BY DEF RoutingInv, Shapes
  <2>4. /\ binding'[c] = s /\ busy'[c] = FALSE
        /\ observed'[c] = observed[c] \union ({binding[c], s} \ {Route!NoSession})
        /\ \A d \in Route!Channels : d # c =>
              /\ binding'[d] = binding[d] /\ observed'[d] = observed[d]
              /\ busy'[d] = busy[d]
    BY <2>2, <2>3
  <2>5. binding[c] \in born \union {Route!NoSession} /\ observed[c] \subseteq born
    BY <2>3
  <2> QED
    BY <1>1, <2>1, <2>4, <2>5
<1>21. /\ Handling' /\ handling'[c] = Route!Done /\ ~Claimed(c)'
       /\ \A d \in Route!Channels : d # c => Unhandled(d)
  BY <1>2, BoundAnew DEF Route!CreateHere, RoutingInv
<1>3. /\ Event \subseteq Event' /\ events \in Seq(Event')
      /\ \A d \in Route!Channels : deferred[d] \in Seq(Event')
  <2>1. Event \subseteq Event'
    BY <1>1 DEF Event
  <2>2. \A w \in Seq(Event) : w \in Seq(Event')
    BY <2>1
  <2> QED
    BY <2>1, <2>2 DEF RoutingInv, Shapes
<1>4. Shapes'
  <2>1. /\ binding' \in [Route!Channels -> born' \union {Route!NoSession}]
        /\ busy' \in [Route!Channels -> BOOLEAN]
    BY <1>1, <1>2 DEF Route!CreateHere, RoutingInv, Shapes
  <2>2. observed' \in [Route!Channels -> SUBSET born']
    BY <1>1, <1>2 DEF Route!CreateHere, Route!Observing, RoutingInv, Shapes
  <2>3. deferred' \in [Route!Channels -> Seq(Event')]
    BY <1>1, <1>3 DEF RoutingInv, Shapes
  <2> QED
    BY <1>1, <1>3, <2>1, <2>2, <2>3 DEF RoutingInv, Shapes
<1>5. RoleOf(c)' /\ Present'
  BY <1>1, <1>2, <1>21 DEF RoutingInv, Roles, RoleOf, Whose, Present, Route!Reports
<1>6. Latest' /\ \A t : NoNews(t)' <=> NoNews(t)
  BY <1>1 DEF RoutingInv, Latest, NoNews, Route!Reports
<1>7. ASSUME NEW t \in born', t \in born => Knows(c, t)
      PROVE  Knows(c, t)'
  <2>1. CASE t = s
    <3>1. ~Flag(c)' /\ s \notin running'
      BY <1>1, <1>2 DEF RoutingInv, Shapes, Flag
    <3>2. attaching'[c] # s /\ New(c, s)' = << >>
      BY <1>1, <1>2 DEF New
    <3> QED
      BY <2>1, <3>1, <3>2 DEF Knows
  <2>2. CASE t # s
    BY <1>1, <1>2, <1>7, <2>2 DEF Knows, New, Whose
  <2> QED
    BY <2>1, <2>2
<1> QED
  BY <1>1, <1>2, <1>21, <1>4, <1>5, <1>6, <1>7, OneChannel

\* What is appended comes last.
LEMMA ComesLast ==
  ASSUME order \in Seq(Route!Channels), NEW m \in Route!Channels, order' = Append(order, m)
  PROVE  order' \in Seq(Route!Channels) /\ Route!ToSet(order') = Route!ToSet(order) \union {m}
<1>1. /\ order' \in Seq(Route!Channels) /\ Len(order) + 1 \in DOMAIN order'
      /\ order'[Len(order) + 1] = m
      /\ \A i \in DOMAIN order : i \in DOMAIN order' /\ order'[i] = order[i]
      /\ \A i \in DOMAIN order' : i \in DOMAIN order \/ i = Len(order) + 1
  OBVIOUS
<1> QED
  BY <1>1 DEF Route!ToSet

LEMMA CreateInv ==
  ASSUME Route!RoutingBounds, RoutingInv, NEW c \in Managed, NEW s \in Sessions, Route!Create(c, s)
  PROVE  RoutingInv'
<1>0. c \in Route!Channels
  BY DEF Route!Channels
<1>1. /\ UNCHANGED <<backend, running, events, busy, attaching, deferred, worker, lost>> /\ Untouched
      /\ Route!Reports /\ observed[c] = {} /\ s \notin born /\ born' = born \union {s}
      /\ s # Route!NoSession /\ order' = Append(order, c)
  BY NobodysSession DEF Route!Create, Route!handlers, Untouched
<1>2. /\ binding[c] = Route!NoSession /\ busy[c] = FALSE /\ attaching[c] = Route!NoSession
      /\ worker[c].pc = "idle" /\ deferred[c] = << >>
      /\ binding'[c] = s /\ observed'[c] = {s}
      /\ \A d \in Route!Channels : d # c => binding'[d] = binding[d] /\ observed'[d] = observed[d]
  BY <1>0, <1>1 DEF Route!Create, RoutingInv, Shapes, Roles, RoleOf, Route!RoutingBounds
<1>3. order' \in Seq(Route!Channels) /\ Route!ToSet(order') = Route!ToSet(order) \union {c}
  BY <1>0, <1>1, ComesLast DEF RoutingInv, Shapes
<1>4. /\ Event \subseteq Event' /\ events \in Seq(Event')
      /\ \A d \in Route!Channels : deferred[d] \in Seq(Event')
  <2>1. Event \subseteq Event'
    BY <1>1 DEF Event
  <2>2. \A w \in Seq(Event) : w \in Seq(Event')
    BY <2>1
  <2> QED
    BY <2>1, <2>2 DEF RoutingInv, Shapes
<1>5. Shapes'
  <2>1. /\ binding' \in [Route!Channels -> born' \union {Route!NoSession}]
        /\ observed' \in [Route!Channels -> SUBSET born']
    BY <1>0, <1>1 DEF Route!Create, RoutingInv, Shapes
  <2>2. deferred' \in [Route!Channels -> Seq(Event')]
    BY <1>1, <1>4 DEF RoutingInv, Shapes
  <2> QED
    BY <1>1, <1>3, <1>4, <2>1, <2>2 DEF RoutingInv, Shapes
<1>6. RoleOf(c)'
  BY <1>0, <1>1, <1>2, <1>3, NothingHandled DEF RoutingInv, Roles, RoleOf, Whose
<1>7. Present'
  BY <1>1, <1>3 DEF RoutingInv, Present, Route!Reports
<1>8. Latest' /\ \A t : NoNews(t)' <=> NoNews(t)
  BY <1>1 DEF RoutingInv, Latest, NoNews, Route!Reports
<1>9. ASSUME NEW t \in born', t \in born => Knows(c, t)
      PROVE  Knows(c, t)'
  <2>1. CASE t = s
    <3>1. ~Flag(c)' /\ s \notin running'
      BY <1>1, <1>2 DEF RoutingInv, Shapes, Flag
    <3>2. attaching'[c] # s /\ New(c, s)' = << >>
      BY <1>1, <1>2 DEF New
    <3> QED
      BY <2>1, <3>1, <3>2 DEF Knows
  <2>2. CASE t # s
    BY <1>1, <1>2, <1>9, <2>2, NothingHandled DEF Knows, New, Whose
  <2> QED
    BY <2>1, <2>2
<1> QED
  BY <1>0, <1>1, <1>2, <1>3, <1>5, <1>6, <1>7, <1>8, <1>9, NothingHandled, OneChannel

LEMMA ReleaseInv ==
  ASSUME Route!RoutingBounds, RoutingInv, NEW c \in Route!Channels, Route!Release(c)
  PROVE  RoutingInv'
<1> DEFINE s == binding[c]
<1>1. /\ UNCHANGED <<backend, born, order, observed, attaching, deferred, worker, lost>>
      /\ c \in Managed /\ s \in born /\ running' = running \ {s}
  BY DEF Route!Release, RoutingInv, Shapes
<1>2. /\ attaching[c] = Route!NoSession /\ worker[c].pc = "idle" /\ deferred[c] = << >>
      /\ binding'[c] = Route!NoSession /\ busy'[c] = FALSE
      /\ \A d \in Route!Channels : d # c => binding'[d] = binding[d] /\ busy'[d] = busy[d]
  BY <1>1 DEF Route!Release, RoutingInv, Shapes, Roles, RoleOf, Route!RoutingBounds
<1>21. /\ Handling' /\ handling'[c] = Route!Done /\ ~Claimed(c)'
       /\ \A d \in Route!Channels : d # c => Unhandled(d)
  BY <1>2, BoundAnew DEF Route!Release, RoutingInv
<1>3. /\ events' \in Seq(Event) /\ Latest'
      /\ \A t : NoNews(t)' => NoNews(t) /\ (t \in born => (t \in running' <=> t \in running))
  <2>1. CASE s \in running
    <3>1. events' = events \o Route!Told(s, FALSE)
      BY <2>1 DEF Route!Release
    <3>2. ~(s \in running') /\ \A t \in born : t # s => (t \in running' <=> t \in running)
      BY <1>1
    <3>3. /\ events' \in Seq(Event) /\ Latest'
          /\ \A t : NoNews(t)' => NoNews(t) /\ t # s
      BY <1>1, <3>1, <3>2, NewsTold DEF RoutingInv
    <3> QED
      BY <3>2, <3>3
  <2>2. CASE s \notin running
    <3>1. events' = events /\ running' = running /\ backend' = backend
      BY <1>1, <2>2 DEF Route!Release
    <3> QED
      BY <3>1 DEF RoutingInv, Shapes, Latest, NoNews, Route!Reports
  <2> QED
    BY <2>1, <2>2
<1>4. Shapes'
  BY <1>1, <1>3 DEF Route!Release, RoutingInv, Shapes, Event
<1>5. RoleOf(c)' /\ Present'
  BY <1>1, <1>2, <1>21 DEF RoutingInv, Roles, RoleOf, Whose, Present, Route!Reports
<1>6. \A t \in born : Knows(c, t)'
  BY <1>1, <1>2, NobodysSession DEF Knows, New, RoutingInv, Shapes
<1> QED
  BY <1>1, <1>2, <1>21, <1>3, <1>4, <1>5, <1>6, OneChannel

\* What is removed was one of them.
LEMMA Concatenated ==
  ASSUME NEW S, NEW a \in Seq(S), NEW b \in Seq(S)
  PROVE  /\ a \o b \in Seq(S) /\ Len(a \o b) = Len(a) + Len(b)
         /\ DOMAIN (a \o b) = 1 .. Len(a) + Len(b)
         /\ \A k \in 1 .. Len(a) : (a \o b)[k] = a[k]
         /\ \A k \in 1 .. Len(b) : (a \o b)[Len(a) + k] = b[k]
  OBVIOUS

LEMMA OneIsRemoved ==
  ASSUME NEW w \in Seq(Route!Channels), NEW i \in DOMAIN w, NEW v, v = Route!RemoveAt(w, i)
  PROVE  /\ v \in Seq(Route!Channels)
         /\ \A c : c \in Route!ToSet(w) /\ c # w[i] => c \in Route!ToSet(v)
<1> DEFINE a == SubSeq(w, 1, i - 1)
           b == SubSeq(w, i + 1, Len(w))
<1>1. /\ i \in 1 .. Len(w) /\ Len(w) \in Nat /\ DOMAIN w = 1 .. Len(w) /\ v = a \o b
  BY DEF Route!RemoveAt
<1>0. i \in Nat /\ 1 <= i /\ i <= Len(w) /\ i - 1 \in Nat /\ Len(w) - i \in Nat
  BY <1>1
<1>2. /\ a \in Seq(Route!Channels) /\ Len(a) = i - 1
      /\ b \in Seq(Route!Channels) /\ Len(b) = Len(w) - i
  BY <1>1
<1>3. /\ \A k \in 1 .. i - 1 : a[k] = w[k]
      /\ \A k \in 1 .. Len(w) - i : b[k] = w[i + k]
  <2>1. \A k \in 1 .. i - 1 : a[k] = w[k]
    BY <1>0
  <2>2. \A k \in 1 .. Len(w) - i : b[k] = w[i + k]
    <3> SUFFICES ASSUME NEW k \in 1 .. Len(w) - i PROVE b[k] = w[i + k]
      OBVIOUS
    <3>1. b[k] = w[(i + 1) + k - 1] /\ (i + 1) + k - 1 = i + k
      BY <1>0
    <3> QED
      BY <3>1
  <2> QED
    BY <2>1, <2>2
<1> HIDE DEF a, b
<1>4. /\ v \in Seq(Route!Channels) /\ DOMAIN v = 1 .. Len(w) - 1
      /\ \A k \in 1 .. Len(a) : v[k] = a[k]
      /\ \A k \in 1 .. Len(b) : v[Len(a) + k] = b[k]
  <2>1. /\ v \in Seq(Route!Channels) /\ DOMAIN v = 1 .. Len(a) + Len(b)
        /\ \A k \in 1 .. Len(a) : v[k] = a[k]
        /\ \A k \in 1 .. Len(b) : v[Len(a) + k] = b[k]
    BY <1>1, <1>2, Concatenated
  <2>2. Len(a) + Len(b) = Len(w) - 1
    BY <1>1, <1>2
  <2> QED
    BY <2>1, <2>2
<1>5. ASSUME NEW k \in DOMAIN w, k # i
      PROVE  \E j \in DOMAIN v : v[j] = w[k]
  <2>1. CASE k < i
    <3>0. k \in 1 .. Len(w)
      BY <1>1
    <3>1. k \in 1 .. Len(a) /\ k \in DOMAIN v
      BY <1>0, <1>2, <1>4, <2>1, <3>0
    <3> QED
      BY <1>2, <1>3, <1>4, <3>1
  <2>2. CASE k > i
    <3>1. /\ k - i \in 1 .. Len(b) /\ Len(a) + (k - i) \in DOMAIN v
          /\ i + (k - i) = k
      <4>1. k \in 1 .. Len(w)
        BY <1>1
      <4>2. k - i \in 1 .. Len(b) /\ i + (k - i) = k
        BY <1>0, <1>2, <2>2, <4>1
      <4>3. Len(a) + (k - i) = k - 1 /\ k - 1 \in 1 .. Len(w) - 1
        <5>1. Len(a) + (k - i) = k - 1
          BY <1>0, <1>2, <4>1
        <5>2. k - 1 \in 1 .. Len(w) - 1
          BY <1>0, <2>2, <4>1
        <5> QED
          BY <5>1, <5>2
      <4> QED
        BY <1>4, <4>2, <4>3
    <3>2. v[Len(a) + (k - i)] = b[k - i] /\ b[k - i] = w[k]
      BY <1>2, <1>3, <1>4, <3>1
    <3> QED
      BY <3>1, <3>2
  <2>3. k < i \/ k > i
    BY <1>1, <1>5
  <2> QED
    BY <2>1, <2>2, <2>3
<1> QED
  BY <1>4, <1>5 DEF Route!ToSet

LEMMA RemoveInv ==
  ASSUME Route!RoutingBounds, RoutingInv, NEW c \in Route!Channels, Route!RemoveChannel(c)
  PROVE  RoutingInv'
<1>1. /\ UNCHANGED <<backend, running, born, events, binding, observed, busy, attaching,
                     deferred, worker, lost>> /\ Untouched
      /\ c \in Managed \intersect Route!ToSet(order) /\ binding[c] = Route!NoSession
  BY DEF Route!RemoveChannel, Route!session, Route!handlers, Untouched
<1>2. PICK i \in DOMAIN order : order[i] = c /\ order' = Route!RemoveAt(order, i)
  BY DEF Route!RemoveChannel
<1>3. /\ order' \in Seq(Route!Channels)
      /\ \A d : d \in Route!ToSet(order) /\ d # c => d \in Route!ToSet(order')
  BY <1>2, OneIsRemoved DEF RoutingInv, Shapes
<1>4. Route!Reports /\ Present'
  BY <1>1, <1>3 DEF RoutingInv, Present, Route!RoutingBounds, Route!Reports
<1>5. Shapes' /\ RoleOf(c)'
  BY <1>1, <1>3, NothingHandled
     DEF RoutingInv, Shapes, Event, Roles, RoleOf, Whose, Route!RoutingBounds
<1>6. Latest' /\ \A t : NoNews(t)' <=> NoNews(t)
  BY <1>1 DEF RoutingInv, Latest, NoNews, Route!Reports
<1>7. \A t \in born : Knows(c, t) => Knows(c, t)'
  BY <1>1, NothingHandled DEF Knows, New, Whose, Flag
<1> QED
  BY <1>1, <1>3, <1>4, <1>5, <1>6, <1>7, NothingHandled, OneChannel

LEMMA RoutingStep ==
  ASSUME Route!RoutingBounds
  PROVE  RoutingInv /\ [Route!Next]_(Route!vars) => RoutingInv'
<1> SUFFICES ASSUME RoutingInv, [Route!Next]_(Route!vars) PROVE RoutingInv'
  OBVIOUS
<1>1. CASE UNCHANGED Route!vars
  <2> USE <1>1 DEF Route!vars, Route!session, Route!handlers, Route!Reports
  <2>1. Shapes' /\ Roles' /\ Present' /\ Handling'
    BY NotHandled DEF RoutingInv, Shapes, Event, Roles, RoleOf, Whose, Present
  <2>2. Latest'
    BY DEF RoutingInv, Latest
  <2>3. Informed'
    <3>1. \A c, s : /\ Clear(c, s)' <=> Clear(c, s)
                    /\ NoNews(s)' <=> NoNews(s)
                    /\ Knows(c, s)' <=> Knows(c, s)
      BY DEF Clear, Route!Foremost, Ahead, NoNews, Knows, New, Whose, Flag, Claimed
    <3> QED
      BY <3>1 DEF RoutingInv, Informed
  <2> QED
    BY <2>1, <2>2, <2>3 DEF RoutingInv
<1>2. CASE Route!Next
  BY <1>2, TakeInv, TurnsInv, CreateInv, CreateHereInv, AttachInv, SummaryInv, AttachFailsInv,
     AttachedInv, SavedInv, DetachInv, ReleaseInv, RemoveInv, ReplayedInv, AttachEndsInv,
     GoesOnHandling DEF Route!Next, Route!Others, Handlers
<1> QED
  BY <1>1, <1>2

LEMMA RoutingInit == ASSUME Route!RoutingBounds, Route!Init PROVE RoutingInv
<1>1. Static \in Seq(Route!Channels)
  BY DEF Route!RoutingBounds, Route!Channels
<1>2. Shapes /\ Handling
  BY <1>1 DEF Route!Init, Shapes, Handling, Handlers, Route!Rest
<1>21. \A a \in Handlers : handling[a] = Route!Done
  BY DEF Route!Init, Handlers
<1>3. Roles
  <2> SUFFICES ASSUME NEW c \in Route!Channels PROVE RoleOf(c)
    BY DEF Roles
  <2>1. binding[c] # Route!NoSession => binding[c] \in observed[c] /\ c \in Route!ToSet(order)
    BY DEF Route!Init, Route!Channels
  <2> QED
    BY <1>21, <2>1 DEF Route!Init, RoleOf, Whose, Handlers, Route!Rest
<1>4. Present /\ Latest
  BY DEF Route!Init, Present, Latest
<1>5. Informed
  <2> SUFFICES ASSUME NEW c \in Route!Channels, NEW s \in born PROVE Knows(c, s)
    BY DEF Informed
  <2>1. /\ ~Flag(c) /\ s \notin running /\ attaching[c] = Route!NoSession /\ s # Route!NoSession
        /\ New(c, s) = << >>
    BY NobodysSession DEF Route!Init, Flag, New
  <2> QED
    BY <2>1 DEF Knows
<1> QED
  BY <1>2, <1>3, <1>4, <1>5 DEF RoutingInv

\* A channel knows whether its session runs a turn once all has been heard, for
\* any channels, in any order of attaches, failures and turns: as the first the
\* session has had to do with, and wherever statuses are reported (_backend_loop,
\* _channel_for and the events _action_attach defers and replays); but for what a
\* channel heard last while an older event was being replayed.
THEOREM RoutingHolds == ASSUME Route!RoutingBounds PROVE Route!Spec => []Route!RoutingIsTrue
<1>1. Route!RoutingBounds /\ Route!Init => RoutingInv
  BY RoutingInit
<1>2. RoutingInv /\ [Route!Next]_(Route!vars) => RoutingInv'
  BY RoutingStep
<1>3. RoutingInv => Route!RoutingIsTrue
  <2> SUFFICES ASSUME RoutingInv PROVE Route!TypeOK /\ Route!HearsItsSession
    BY DEF Route!RoutingIsTrue
  <2>1. Route!TypeOK
    BY DEF RoutingInv, Shapes, Roles, RoleOf, Whose, Present, Route!TypeOK, Route!Rest
  <2>2. ASSUME Route!Quiet, NEW c \in Route!Channels \ passed, binding[c] # Route!NoSession,
               \/ /\ Route!Foremost(c, binding[c])
                  /\ \A d \in Route!Channels : <<d, binding[c]>> \notin lost
               \/ Route!Reports /\ <<c, binding[c]>> \notin lost
        PROVE  busy[c] = (binding[c] \in running)
    <3>1. \A d \in Route!Channels : /\ attaching[d] = Route!NoSession /\ deferred[d] = << >>
                                /\ handling[d] = Route!Done
      BY <2>2 DEF Route!Quiet, RoutingInv, Roles, RoleOf, Route!Rest
    <3>11. ~Claimed(c)
      BY <2>2, <3>1 DEF Route!Quiet, Claimed, Claim, Handlers, Route!Done
    <3>2. binding[c] \in born /\ NoNews(binding[c])
      BY <2>2 DEF Route!Quiet, RoutingInv, Shapes, NoNews
    <3>3. Clear(c, binding[c])
      BY <2>2, <3>1 DEF Clear
    <3>4. Knows(c, binding[c])
      BY <3>2, <3>3 DEF RoutingInv, Informed
    <3>5. busy[c] \in BOOLEAN /\ (busy[c] <=> binding[c] \in running)
      BY <2>2, <3>1, <3>11, <3>4 DEF Knows, New, Flag, RoutingInv, Shapes
    <3> QED
      BY <3>5
  <2> QED
    BY <2>1, <2>2 DEF Route!HearsItsSession
<1> QED
  BY <1>1, <1>2, <1>3, PTL DEF Route!Spec
-----------------------------------------------------------------------------
(* SessionStatus                                                           *)

\* What Backend.events() yields of a session, and what was published last.
StatusEvent == [kind : {"status"}, sid : Sessions, value : Status!Statuses]
               \cup [kind : {"agents"}, sid : Sessions, value : Lists]
Reading(S) == [seen : S \cup {Status!Nothing}, recent : BOOLEAN]
AttachPcs == {"attach", "summary", "save", "list", "replay"}
WorkerState == [pc : AttachPcs \cup {"idle", "detach", "sync"},
                sid : Sessions \cup {Status!NoSession}, busy : BOOLEAN]
ClientState == [on : BOOLEAN, synced : BOOLEAN, whole : BOOLEAN,
                sid : Sessions \cup {Status!NoSession}, busy : BOOLEAN, agents : Lists]

StatusTypes ==
    /\ status \in [Sessions -> Status!Statuses] /\ changes \in 0 .. MaxChanges
    /\ events \in Seq(StatusEvent) /\ deferred \in Seq(StatusEvent)
    /\ binding \in Sessions \cup {Status!NoSession} /\ busy \in BOOLEAN
    /\ worker \in WorkerState
    /\ observed \in [Sessions -> Reading(Status!Statuses)]
    /\ held \in [Sessions -> Status!Statuses \cup {Status!Nothing}]
    /\ listed \in Reading(Lists) /\ heldList \in Lists \cup {Status!Nothing}
    /\ client \in ClientState
    /\ published \in [Sessions -> Status!Statuses \cup {Status!Nothing}]
    /\ due \in Lists /\ coming \in Lists /\ crossed \subseteq {"status", "agents"}
    /\ touched \subseteq Sessions

\* What the worker is doing, and what is deferred for it.
StatusRoles ==
    /\ worker.pc = "idle" => worker = Status!Rest
    /\ worker.pc \in AttachPcs => worker.sid \in touched
    /\ worker.pc \notin AttachPcs => deferred = << >> /\ worker.sid = Status!NoSession
    /\ \A i \in DOMAIN deferred : deferred[i].sid = worker.sid
    /\ worker.pc \in {"save", "list", "replay"} => binding = worker.sid
    /\ worker.pc \in {"save", "list"} =>
          busy = worker.busy /\ listed = Status!Never /\ heldList = Status!Nothing
          /\ due = Status!NoAgents
    /\ worker.pc = "detach" => binding = Status!NoSession
    /\ binding = Status!NoSession => ~busy
    /\ binding # Status!NoSession => binding \in touched

\* The last status or list of s in q, if any, is v.
Tells(k, e, s) == e.kind = k /\ e.sid = s
Silent(k, q, s) == \A i \in DOMAIN q : ~Tells(k, q[i], s)
EndsIn(k, q, s, v) ==
    \A i \in DOMAIN q :
        Tells(k, q[i], s) /\ (\A j \in DOMAIN q : i < j => ~Tells(k, q[j], s)) => q[i].value = v

\* The last status on its way to the bridge, or deferred, is the session's; but
\* a newer one may have overtaken what is left to replay.
OutOfTurn(k, s) == worker.pc = "replay" /\ worker.sid = s /\ k \in crossed
NewestComes ==
    \A s \in Sessions :
        /\ EndsIn("status", events, s, status[s])
        /\ Silent("status", events, s) /\ ~OutOfTurn("status", s)
              => EndsIn("status", deferred, s, status[s])

\* With none, the bridge knows whether the session is running.
BusyKnown ==
    \A s \in Sessions : Silent("status", events, s) /\ Silent("status", deferred, s) =>
        /\ binding = s /\ s \notin lost /\ "status" \notin crossed => busy = Status!Running(s)
        /\ worker.sid = s /\ worker.pc = "summary" => worker.busy = Status!Running(s)

\* A client that was told of the binding is told whatever changes.
Telling == worker.pc \notin {"save", "detach"}
ClientTold ==
    /\ client.synced \/ client.whole => client.on
    /\ Telling /\ (client.synced \/ client.whole) => client.sid = binding
    /\ Telling /\ client.synced /\ ~overtaken => client.busy = busy
    /\ binding # Status!NoSession /\ ~overtaken => held[binding] = Status!Nothing

\* A client that saw the binding change has the list that was published.
Same(v, list) == v = list \/ (v = Status!Nothing /\ list = Status!NoAgents)
AgentsTold ==
    Telling /\ client.whole /\ binding # Status!NoSession =>
          Same(listed.seen, client.agents)

\* The list that was published, or is held, is the last one that came, unless
\* that one is left to replay.
AgentsDue ==
    /\ worker.pc \in AttachPcs \ {"replay"} =>
          /\ EndsIn("agents", deferred, worker.sid, coming)
          /\ Silent("agents", deferred, worker.sid) => coming = Status!NoAgents
    /\ binding # Status!NoSession /\ "agents" \notin crossed =>
          /\ worker.pc = "replay" => EndsIn("agents", deferred, binding, due)
          /\ worker.pc # "replay" \/ Silent("agents", deferred, binding) =>
                Same(Status!Visible(listed, heldList), due)

\* So is the status of a session no attach has named.
DrawerTold ==
    \A s \in Sessions \ touched :
        /\ published[s] = observed[s].seen
        /\ Silent("status", events, s) =>
              LET shown == Status!Visible(observed[s], held[s]) IN
              shown = status[s] \/ (shown = Status!Nothing /\ status[s] = "idle")

StatusInv == StatusTypes /\ StatusRoles /\ NewestComes /\ BusyKnown /\ ClientTold /\ AgentsTold
             /\ AgentsDue /\ DrawerTold

LEMMA AgentsDueStays ==
  ASSUME AgentsDue, UNCHANGED <<binding, deferred, worker, listed, heldList, due, coming, crossed>>
  PROVE  AgentsDue'
  BY DEF AgentsDue, Status!Visible

LEMMA StatusNames ==
  ASSUME Status!StatusBounds
  PROVE  /\ Status!NoSession \notin Sessions /\ Status!NoAgents \in Lists
         /\ Status!Nothing \notin Lists /\ Status!Nothing \notin Status!Statuses
         /\ Status!Rest.pc = "idle" /\ Status!Rest.sid = Status!NoSession
         /\ Status!Rest.busy = FALSE
  BY DEF Status!StatusBounds, Status!NoSession, Status!Nothing, Status!Statuses, Status!Rest

\* What is left of a queue whose head was taken.
LEMMA Taken ==
  ASSUME NEW q \in Seq(StatusEvent), q # << >>, NEW k, NEW s
  PROVE  /\ Head(q) \in StatusEvent /\ Tail(q) \in Seq(StatusEvent)
         /\ Silent(k, q, s) <=> Silent(k, Tail(q), s) /\ ~Tells(k, Head(q), s)
         /\ \A v : EndsIn(k, q, s, v) => EndsIn(k, Tail(q), s, v)
         /\ \A v : EndsIn(k, q, s, v) /\ Silent(k, Tail(q), s) /\ Tells(k, Head(q), s) =>
                Head(q).value = v
<1>1. /\ Head(q) \in StatusEvent /\ Tail(q) \in Seq(StatusEvent) /\ Head(q) = q[1]
      /\ Len(q) \in Nat /\ Len(q) >= 1 /\ DOMAIN q = 1 .. Len(q)
      /\ DOMAIN Tail(q) = 1 .. Len(q) - 1
      /\ \A i \in 1 .. Len(q) - 1 : Tail(q)[i] = q[i + 1]
  OBVIOUS
<1>2. \A j \in 1 .. Len(q) : j = 1 \/ (j - 1 \in 1 .. Len(q) - 1 /\ q[j] = Tail(q)[j - 1])
  <2>1. \A j \in 1 .. Len(q) : j = 1 \/ (j - 1 \in 1 .. Len(q) - 1 /\ (j - 1) + 1 = j)
    BY <1>1
  <2> QED
    BY <1>1, <2>1
<1>3. Silent(k, q, s) <=> Silent(k, Tail(q), s) /\ ~Tells(k, Head(q), s)
  <2>1. ASSUME Silent(k, q, s)
        PROVE  Silent(k, Tail(q), s) /\ ~Tells(k, Head(q), s)
    BY <1>1, <2>1 DEF Silent
  <2>2. ASSUME Silent(k, Tail(q), s), ~Tells(k, Head(q), s)
        PROVE  Silent(k, q, s)
    BY <1>1, <1>2, <2>2 DEF Silent
  <2> QED
    BY <2>1, <2>2
<1>4. ASSUME NEW v, EndsIn(k, q, s, v)
      PROVE  EndsIn(k, Tail(q), s, v)
  <2> SUFFICES ASSUME NEW i \in 1 .. Len(q) - 1, Tells(k, Tail(q)[i], s),
                      \A j \in 1 .. Len(q) - 1 : i < j => ~Tells(k, Tail(q)[j], s)
               PROVE  Tail(q)[i].value = v
    BY <1>1 DEF EndsIn
  <2>1. i + 1 \in DOMAIN q /\ q[i + 1] = Tail(q)[i]
    BY <1>1
  <2>2. ASSUME NEW j \in DOMAIN q, i + 1 < j
        PROVE  ~Tells(k, q[j], s)
    <3>1. j \in 1 .. Len(q) /\ j # 1
      BY <1>1, <2>2
    <3>2. j - 1 \in 1 .. Len(q) - 1 /\ q[j] = Tail(q)[j - 1] /\ i < j - 1
      BY <1>2, <3>1, <2>2
    <3> QED
      BY <3>2
  <2> QED
    BY <1>4, <2>1, <2>2 DEF EndsIn
<1>5. ASSUME NEW v, EndsIn(k, q, s, v), Silent(k, Tail(q), s), Tells(k, Head(q), s)
      PROVE  Head(q).value = v
  <2>1. 1 \in DOMAIN q /\ Tells(k, q[1], s)
    BY <1>1, <1>5
  <2>2. ASSUME NEW j \in DOMAIN q, 1 < j
        PROVE  ~Tells(k, q[j], s)
    <3>1. j - 1 \in DOMAIN Tail(q) /\ q[j] = Tail(q)[j - 1]
      BY <1>1, <1>2, <2>2
    <3> QED
      BY <1>5, <3>1 DEF Silent
  <2> QED
    BY <1>1, <1>5, <2>1, <2>2 DEF EndsIn
<1> QED
  BY <1>1, <1>3, <1>4, <1>5

\* What a queue tells when something is added to it.
LEMMA Added ==
  ASSUME NEW q \in Seq(StatusEvent), NEW e \in StatusEvent, NEW k, NEW s, NEW v
  PROVE  /\ Append(q, e) \in Seq(StatusEvent)
         /\ Silent(k, Append(q, e), s) <=> Silent(k, q, s) /\ ~Tells(k, e, s)
         /\ Tells(k, e, s) => (EndsIn(k, Append(q, e), s, v) <=> e.value = v)
         /\ ~Tells(k, e, s) /\ EndsIn(k, q, s, v) => EndsIn(k, Append(q, e), s, v)
<1> DEFINE r == Append(q, e)
<1>1. /\ r \in Seq(StatusEvent) /\ Len(q) \in Nat /\ DOMAIN q = 1 .. Len(q)
      /\ DOMAIN r = 1 .. Len(q) + 1 /\ r[Len(q) + 1] = e
      /\ \A i \in 1 .. Len(q) : r[i] = q[i]
  OBVIOUS
<1>2. \A i \in DOMAIN r : i \in DOMAIN q \/ i = Len(q) + 1
  BY <1>1
<1>3. DOMAIN q \subseteq DOMAIN r /\ Len(q) + 1 \in DOMAIN r
  BY <1>1
<1> HIDE DEF r
<1>4. Silent(k, r, s) <=> Silent(k, q, s) /\ ~Tells(k, e, s)
  BY <1>1, <1>2, <1>3 DEF Silent
<1>5. ASSUME Tells(k, e, s)
      PROVE  EndsIn(k, r, s, v) <=> e.value = v
  BY <1>1, <1>2, <1>3, <1>5 DEF EndsIn
<1>6. ASSUME ~Tells(k, e, s), EndsIn(k, q, s, v)
      PROVE  EndsIn(k, r, s, v)
  BY <1>1, <1>2, <1>3, <1>6 DEF EndsIn
<1> QED
  BY <1>1, <1>4, <1>5, <1>6 DEF r

LEMMA NothingTold == \A k, s, v : Silent(k, << >>, s) /\ EndsIn(k, << >>, s, v)
  BY DEF Silent, EndsIn

LEMMA StatusInit == ASSUME Status!StatusBounds, Status!Init PROVE StatusInv
<1> USE DEF Status!Init
<1>1. StatusTypes
  <2>1. /\ status \in [Sessions -> Status!Statuses] /\ changes \in 0 .. MaxChanges
        /\ events \in Seq(StatusEvent) /\ deferred \in Seq(StatusEvent)
    BY DEF Status!StatusBounds, Status!Statuses
  <2>2. worker \in WorkerState
    BY DEF WorkerState, AttachPcs, Status!Rest
  <2>3. observed \in [Sessions -> Reading(Status!Statuses)] /\ listed \in Reading(Lists)
    BY DEF Reading, Status!Never
  <2>4. client \in ClientState
    BY StatusNames DEF ClientState, Status!Absent
  <2> QED
    BY <2>1, <2>2, <2>3, <2>4, StatusNames DEF StatusTypes
<1>2. StatusRoles /\ NewestComes
  BY StatusNames, NothingTold DEF StatusRoles, AttachPcs, NewestComes, OutOfTurn, Status!Rest
<1>3. BusyKnown
  BY StatusNames DEF BusyKnown
<1>4. ClientTold /\ AgentsTold
  BY StatusNames DEF ClientTold, AgentsTold, Status!Absent
<1>6. AgentsDue
  BY StatusNames DEF AgentsDue, AttachPcs
<1>5. DrawerTold
  BY StatusNames DEF DrawerTold, Status!Never, Status!Visible
<1> QED
  BY <1>1, <1>2, <1>3, <1>4, <1>5, <1>6 DEF StatusInv

\* What a client makes of a status, and of a list.
LEMMA BusyRead ==
  ASSUME StatusInv, NEW s, NEW b \in BOOLEAN, client' = Status!ReadBusy(client, s, b)
  PROVE  /\ client' \in ClientState
         /\ client'.on = client.on /\ client'.synced = client.synced
         /\ client'.whole = client.whole /\ client'.sid = client.sid
         /\ client'.agents = client.agents
         /\ IF client.on /\ client.sid = s THEN client'.busy = b ELSE client' = client
<1> USE DEF Status!ReadBusy, StatusInv, StatusTypes, ClientState
<1>1. CASE client.on /\ client.sid = s
  <2>1. client' = [client EXCEPT !.busy = b]
    BY <1>1
  <2> QED
    BY <1>1, <2>1
<1>2. CASE ~(client.on /\ client.sid = s)
  BY <1>2
<1> QED
  BY <1>1, <1>2

LEMMA AgentsRead ==
  ASSUME StatusInv, NEW s, NEW list \in Lists, client' = Status!ReadAgents(client, s, list)
  PROVE  /\ client' \in ClientState
         /\ client'.on = client.on /\ client'.synced = client.synced
         /\ client'.whole = client.whole /\ client'.sid = client.sid
         /\ client'.busy = client.busy
         /\ IF client.on /\ client.sid = s THEN client'.agents = list ELSE client' = client
<1> USE DEF Status!ReadAgents, StatusInv, StatusTypes, ClientState
<1>1. CASE client.on /\ client.sid = s
  <2>1. client' = [client EXCEPT !.agents = list]
    BY <1>1
  <2> QED
    BY <1>1, <2>1
<1>2. CASE ~(client.on /\ client.sid = s)
  BY <1>2
<1> QED
  BY <1>1, <1>2

\* A client joins or leaves.
LEMMA JoinsInv ==
  ASSUME Status!StatusBounds, StatusInv, Status!Join
  PROVE  StatusInv'
<1> USE DEF StatusInv, OutOfTurn, Status!Join, Status!session, Status!heard, Status!actor, Status!coalescer,
        Status!lists, Status!marks
<1>1. client' \in [on : BOOLEAN, synced : {FALSE}, whole : {FALSE}, sid : {Status!NoSession},
                   busy : BOOLEAN, agents : {Status!NoAgents}]
  BY DEF Status!Absent, StatusTypes
<1>2. StatusTypes'
  BY <1>1, StatusNames DEF StatusTypes, ClientState
<1>3. ClientTold'
  BY <1>1 DEF ClientTold, Telling
<1>4. AgentsTold'
  BY <1>1 DEF AgentsTold, Telling, Status!Visible
<1>5. StatusRoles' /\ NewestComes' /\ BusyKnown' /\ DrawerTold' /\ AgentsDue'
  BY AgentsDueStays
     DEF StatusRoles, NewestComes, BusyKnown, DrawerTold, Status!Visible, Status!Running
<1> QED
  BY <1>2, <1>3, <1>4, <1>5

LEMMA ReportInv ==
  ASSUME Status!StatusBounds, StatusInv, Status!StatusChanges \/ Status!ListChanges
  PROVE  StatusInv'
<1> USE DEF StatusInv, OutOfTurn, Status!session, Status!heard, Status!actor, Status!coalescer, Status!lists, Status!marks
<1>1. PICK e \in StatusEvent :
         /\ Status!Report(e)
         /\ \/ e.kind = "agents" /\ UNCHANGED status
            \/ e.kind = "status" /\ status' = [status EXCEPT ![e.sid] = e.value]
  <2>1. CASE Status!ListChanges
    <3>1. PICK s \in Sessions, list \in Lists :
             Status!Report([kind |-> "agents", sid |-> s, value |-> list]) /\ UNCHANGED status
      BY <2>1 DEF Status!ListChanges
    <3>2. [kind |-> "agents", sid |-> s, value |-> list] \in StatusEvent
      BY DEF StatusEvent
    <3> QED
      BY <3>1, <3>2
  <2>2. CASE Status!StatusChanges
    <3>1. PICK s \in Sessions, v \in Status!Statuses :
             /\ status' = [status EXCEPT ![s] = v]
             /\ Status!Report([kind |-> "status", sid |-> s, value |-> v])
      BY <2>2 DEF Status!StatusChanges
    <3>2. [kind |-> "status", sid |-> s, value |-> v] \in StatusEvent
      BY DEF StatusEvent
    <3> QED
      BY <3>1, <3>2
  <2> QED
    BY <2>1, <2>2
<1>2. /\ changes' = changes + 1 /\ changes < MaxChanges /\ events' = Append(events, e)
      /\ UNCHANGED <<binding, deferred, worker, actions, busy, observed, held, listed,
                     heldList, due, coming, crossed, client, published, touched, overtaken, lost>>
  BY <1>1 DEF Status!Report
<1>3. \A s \in Sessions : status'[s] = status[s] \/ (Tells("status", e, s) /\ status'[s] = e.value)
  BY <1>1 DEF StatusTypes, Tells
<1>4. StatusTypes'
  <2>1. status' \in [Sessions -> Status!Statuses]
    BY <1>1 DEF StatusTypes, StatusEvent
  <2>2. changes' \in 0 .. MaxChanges /\ events' \in Seq(StatusEvent)
    BY <1>2, Added DEF StatusTypes, Status!StatusBounds
  <2> QED
    BY <1>2, <2>1, <2>2 DEF StatusTypes
<1>5. \A s \in Sessions : Silent("status", events', s) <=> Silent("status", events, s) /\ ~Tells("status", e, s)
  BY <1>2, Added DEF StatusTypes
<1>6. NewestComes'
  <2> SUFFICES ASSUME NEW s \in Sessions
               PROVE  /\ EndsIn("status", events', s, status'[s])
                      /\ Silent("status", events', s) /\ ~OutOfTurn("status", s)'
                            => EndsIn("status", deferred', s, status'[s])
    BY DEF NewestComes
  <2>1. /\ EndsIn("status", events, s, status[s])
        /\ Silent("status", events, s) /\ ~OutOfTurn("status", s)
              => EndsIn("status", deferred, s, status[s])
    BY DEF NewestComes
  <2>2. CASE ~Tells("status", e, s)
    BY <1>2, <1>3, <2>1, <2>2, <1>5, Added DEF StatusTypes
  <2>3. CASE Tells("status", e, s)
    <3>1. status'[s] = e.value
      BY <1>1, <2>3 DEF Tells, StatusTypes
    <3> QED
      BY <1>2, <1>5, <2>3, <3>1, Added DEF StatusTypes
  <2> QED
    BY <2>2, <2>3
<1>7. BusyKnown'
  BY <1>2, <1>3, <1>5 DEF BusyKnown, Status!Running
<1>8. DrawerTold'
  BY <1>2, <1>3, <1>5 DEF DrawerTold, Status!Visible
<1>9. StatusRoles' /\ ClientTold' /\ AgentsTold' /\ AgentsDue'
  BY <1>2, AgentsDueStays DEF StatusRoles, ClientTold, AgentsTold, Telling, Status!Visible
<1> QED
  BY <1>4, <1>6, <1>7, <1>8, <1>9

\* What is held goes out when a window closes; another window may close.
LEMMA FlushStatusInv ==
  ASSUME Status!StatusBounds, StatusInv, NEW s \in Sessions, Status!FlushStatus(s)
  PROVE  StatusInv'
<1> USE DEF StatusInv, OutOfTurn, Status!session, Status!heard, Status!actor, Status!lists, Status!marks
<1>1. /\ held[s] \in Status!Statuses /\ held' = [held EXCEPT ![s] = Status!Nothing]
      /\ observed' = [observed EXCEPT ![s] = [seen |-> held[s], recent |-> TRUE]]
      /\ published' = [published EXCEPT ![s] = held[s]]
      /\ client' = Status!ReadBusy(client, s, held[s] # "idle")
      /\ UNCHANGED <<status, changes, events, binding, deferred, worker, actions, busy, listed,
                     heldList, due, coming, crossed, touched, overtaken, lost>>
  BY DEF Status!FlushStatus, Status!EmitStatus, StatusTypes
<1>2. /\ client' \in ClientState
      /\ client'.on = client.on /\ client'.synced = client.synced
      /\ client'.whole = client.whole /\ client'.sid = client.sid
      /\ client'.agents = client.agents /\ (client.sid # s => client' = client)
  BY <1>1, BusyRead
<1>3. StatusTypes'
  <2>1. observed' \in [Sessions -> Reading(Status!Statuses)]
    BY <1>1 DEF StatusTypes, Reading
  <2>2. /\ held' \in [Sessions -> Status!Statuses \cup {Status!Nothing}]
        /\ published' \in [Sessions -> Status!Statuses \cup {Status!Nothing}]
    BY <1>1 DEF StatusTypes
  <2> QED
    BY <1>1, <1>2, <2>1, <2>2 DEF StatusTypes
<1>4. ClientTold'
  <2>1. binding = s => overtaken
    BY <1>1, StatusNames DEF ClientTold
  <2>2. \A r \in Sessions : held'[r] = held[r] \/ held'[r] = Status!Nothing
    BY <1>1 DEF StatusTypes
  <2>3. Telling /\ client.synced /\ client.sid = s => binding = s
    BY DEF ClientTold, Telling
  <2> QED
    BY <1>1, <1>2, <2>1, <2>2, <2>3 DEF ClientTold, Telling, StatusTypes
<1>5. AgentsTold'
  BY <1>1, <1>2 DEF AgentsTold, Telling, StatusTypes, Status!Visible
<1>6. DrawerTold'
  <2> SUFFICES ASSUME NEW r \in Sessions \ touched
               PROVE  /\ published'[r] = observed'[r].seen
                      /\ Silent("status", events, r) =>
                            LET shown == Status!Visible(observed'[r], held'[r]) IN
                            shown = status[r] \/ (shown = Status!Nothing /\ status[r] = "idle")
    BY <1>1 DEF DrawerTold, Status!Visible
  <2>1. CASE r = s
    BY <1>1, <2>1, StatusNames DEF DrawerTold, Status!Visible, StatusTypes
  <2>2. CASE r # s
    BY <1>1, <2>2 DEF DrawerTold, StatusTypes
  <2> QED
    BY <2>1, <2>2
<1>7. StatusRoles' /\ NewestComes' /\ BusyKnown' /\ AgentsDue'
  BY <1>1, AgentsDueStays DEF StatusRoles, NewestComes, BusyKnown, Status!Running
<1> QED
  BY <1>3, <1>4, <1>5, <1>6, <1>7

LEMMA FlushListInv ==
  ASSUME Status!StatusBounds, StatusInv, Status!FlushList
  PROVE  StatusInv'
<1> USE DEF StatusInv, OutOfTurn, Status!session, Status!heard, Status!actor, Status!coalescer, Status!marks
<1>1. /\ heldList \in Lists /\ listed' = [seen |-> heldList, recent |-> TRUE]
      /\ heldList' = Status!Nothing
      /\ client' = Status!ReadAgents(client, binding, heldList)
      /\ heldList # Status!Nothing
      /\ UNCHANGED <<status, changes, events, binding, deferred, worker, actions, busy, observed,
                     held, due, coming, crossed, published, touched, overtaken, lost>>
  BY DEF Status!FlushList, StatusTypes
<1>2. /\ client' \in ClientState
      /\ client'.on = client.on /\ client'.synced = client.synced
      /\ client'.whole = client.whole /\ client'.sid = client.sid
      /\ client'.busy = client.busy
      /\ client.on /\ client.sid = binding => client'.agents = heldList
  BY <1>1, AgentsRead
<1>3. StatusTypes'
  <2>1. listed' \in Reading(Lists)
    BY <1>1 DEF Reading
  <2> QED
    BY <1>1, <1>2, <2>1 DEF StatusTypes
<1>4. StatusRoles'
  BY <1>1 DEF StatusRoles
<1>5. ClientTold'
  BY <1>1, <1>2 DEF ClientTold, Telling, StatusTypes
<1>6. AgentsTold' /\ AgentsDue'
  <2>1. Status!Visible(listed', heldList') = Status!Visible(listed, heldList)
    BY <1>1 DEF Status!Visible
  <2>2. ASSUME Telling, client.whole
        PROVE  client'.agents = listed'.seen
    BY <1>1, <1>2, <2>2 DEF ClientTold, StatusTypes
  <2>3. AgentsDue'
    BY <1>1, <2>1 DEF AgentsDue
  <2> QED
    BY <1>1, <1>2, <2>2, <2>3 DEF AgentsTold, Same, Telling
<1>7. NewestComes' /\ BusyKnown' /\ DrawerTold'
  BY <1>1 DEF NewestComes, BusyKnown, DrawerTold, Status!Running, Status!Visible
<1> QED
  BY <1>3, <1>4, <1>5, <1>6, <1>7

LEMMA Closed ==
  ASSUME NEW S, NEW was \in Reading(S)
  PROVE  /\ [was EXCEPT !.recent = FALSE] \in Reading(S)
         /\ [was EXCEPT !.recent = FALSE].seen = was.seen
  BY DEF Reading

LEMMA WindowInv ==
  ASSUME Status!StatusBounds, StatusInv, Status!WindowCloses
  PROVE  StatusInv'
<1> USE DEF StatusInv, OutOfTurn, Status!session, Status!heard, Status!actor, Status!marks
<1>1. /\ observed' \in [Sessions -> Reading(Status!Statuses)] /\ listed' \in Reading(Lists)
      /\ \A s \in Sessions : observed'[s].seen = observed[s].seen
      /\ listed'.seen = listed.seen /\ (listed.recent = FALSE => listed' = listed)
      /\ UNCHANGED <<status, changes, events, binding, deferred, worker, actions, busy, held,
                     heldList, due, coming, crossed, client, published, touched, overtaken, lost>>
  <2>1. CASE \E s \in Sessions :
                /\ observed[s].recent /\ held[s] = Status!Nothing
                /\ observed' = [observed EXCEPT ![s].recent = FALSE] /\ UNCHANGED listed
    <3>1. PICK s \in Sessions : observed' = [observed EXCEPT ![s].recent = FALSE]
      BY <2>1
    <3>2. observed[s] \in Reading(Status!Statuses)
      BY DEF StatusTypes
    <3>3. /\ [observed[s] EXCEPT !.recent = FALSE] \in Reading(Status!Statuses)
          /\ [observed[s] EXCEPT !.recent = FALSE].seen = observed[s].seen
      BY <3>2, Closed
    <3>4. observed' \in [Sessions -> Reading(Status!Statuses)]
      BY <3>1, <3>3 DEF StatusTypes
    <3>5. \A r \in Sessions : observed'[r].seen = observed[r].seen
      BY <3>1, <3>3 DEF StatusTypes
    <3> QED
      BY <2>1, <3>4, <3>5 DEF Status!WindowCloses, StatusTypes
  <2>2. CASE /\ listed.recent /\ heldList = Status!Nothing
             /\ listed' = [listed EXCEPT !.recent = FALSE] /\ UNCHANGED observed
    BY <2>2 DEF Status!WindowCloses, StatusTypes, Reading
  <2> QED
    BY <2>1, <2>2 DEF Status!WindowCloses
<1>2. StatusTypes'
  BY <1>1 DEF StatusTypes
<1>3. StatusRoles'
  BY <1>1 DEF StatusRoles, Status!Never
<1>4. AgentsTold' /\ AgentsDue'
  BY <1>1 DEF AgentsTold, AgentsDue, Telling, Status!Visible
<1>5. DrawerTold'
  BY <1>1 DEF DrawerTold, Status!Visible
<1>6. NewestComes' /\ BusyKnown' /\ ClientTold'
  BY <1>1 DEF NewestComes, BusyKnown, ClientTold, Telling, Status!Running
<1> QED
  BY <1>2, <1>3, <1>4, <1>5, <1>6

\* The steps of the worker.
WorkerOnly ==
    UNCHANGED <<status, changes, events, observed, held, published>>

LEMMA DrawerStays ==
  ASSUME DrawerTold, WorkerOnly, touched \subseteq touched'
  PROVE  DrawerTold'
  BY DEF DrawerTold, WorkerOnly, Status!Visible

LEMMA BeginsInv ==
  ASSUME Status!StatusBounds, StatusInv, NEW s \in Sessions, Status!Attach(s)
  PROVE  StatusInv'
<1> USE DEF StatusInv, OutOfTurn, Status!session, Status!heard, Status!coalescer, Status!lists
<1>1. /\ worker = Status!Rest /\ worker' = [pc |-> "attach", sid |-> s, busy |-> FALSE]
      /\ deferred' = << >> /\ deferred = << >> /\ touched' = touched \cup {s}
      /\ coming' = Status!NoAgents
      /\ UNCHANGED <<status, changes, events, binding, busy, observed, held, listed,
                     heldList, due, crossed, client, published, overtaken, lost>>
  BY DEF Status!Attach, Status!Begins, Status!Rest, StatusRoles, AttachPcs
<1>2. StatusTypes'
  BY <1>1, StatusNames DEF StatusTypes, WorkerState, AttachPcs
<1>3. StatusRoles'
  BY <1>1 DEF StatusRoles, AttachPcs
<1>4. NewestComes' /\ BusyKnown' /\ AgentsDue'
  BY <1>1, StatusNames, NothingTold
     DEF NewestComes, BusyKnown, AgentsDue, AttachPcs, Status!Running, Status!Visible
<1>5. ClientTold' /\ AgentsTold'
  BY <1>1, StatusNames DEF ClientTold, AgentsTold, Telling, Status!Visible
<1>6. DrawerTold'
  BY <1>1, DrawerStays DEF WorkerOnly
<1> QED
  BY <1>2, <1>3, <1>4, <1>5, <1>6

LEMMA SummaryStatusInv ==
  ASSUME Status!StatusBounds, StatusInv, Status!Summary
  PROVE  StatusInv'
<1> USE DEF StatusInv, OutOfTurn, Status!session, Status!heard, Status!coalescer, Status!lists, Status!marks
<1>1. /\ worker.pc = "attach" /\ worker.sid \in Sessions
      /\ worker' = [worker EXCEPT !.pc = "summary", !.busy = Status!Running(worker.sid)]
      /\ UNCHANGED <<status, changes, events, binding, deferred, busy, observed, held, listed,
                     heldList, due, coming, crossed, client, published, touched, overtaken, lost>>
  BY DEF Status!Summary, StatusRoles, StatusTypes, AttachPcs
<1>2. worker' = [pc |-> "summary", sid |-> worker.sid, busy |-> Status!Running(worker.sid)]
  BY <1>1 DEF StatusTypes, WorkerState
<1>3. Status!Running(worker.sid) \in BOOLEAN
  BY DEF Status!Running
<1>4. StatusTypes'
  BY <1>1, <1>2, <1>3 DEF StatusTypes, WorkerState, AttachPcs
<1>5. StatusRoles'
  BY <1>1, <1>2 DEF StatusRoles, AttachPcs
<1>6. NewestComes' /\ BusyKnown' /\ AgentsDue'
  BY <1>1, <1>2 DEF NewestComes, BusyKnown, AgentsDue, AttachPcs, Status!Running, Status!Visible
<1>7. ClientTold' /\ AgentsTold'
  BY <1>1, <1>2 DEF ClientTold, AgentsTold, Telling, Status!Visible
<1>8. DrawerTold'
  BY <1>1, DrawerStays DEF WorkerOnly
<1> QED
  BY <1>4, <1>5, <1>6, <1>7, <1>8

\* What an attach that fails discards is of its own session.
LEMMA AttachFailsStatusInv ==
  ASSUME Status!StatusBounds, StatusInv, Status!AttachFails
  PROVE  StatusInv'
<1> USE DEF StatusInv, OutOfTurn, Status!session, Status!heard, Status!coalescer, Status!lists
<1>1. /\ worker.pc \in {"attach", "summary"} /\ worker' = Status!Rest /\ deferred' = << >>
      /\ lost' = IF deferred = << >> THEN lost ELSE lost \cup {worker.sid}
      /\ UNCHANGED <<status, changes, events, binding, busy, observed, held, listed,
                     heldList, due, coming, crossed, client, published, touched, overtaken>>
  BY DEF Status!AttachFails
<1>2. StatusTypes'
  BY <1>1 DEF StatusTypes, WorkerState, AttachPcs, Status!Rest
<1>3. StatusRoles'
  BY <1>1, StatusNames DEF StatusRoles, AttachPcs
<1>4. NewestComes'
  BY <1>1, NothingTold DEF NewestComes
<1>5. \A s \in Sessions : s \notin lost' => s \notin lost /\ Silent("status", deferred, s)
  BY <1>1, NothingTold DEF StatusRoles, Silent, Tells
<1>6. BusyKnown'
  BY <1>1, <1>5, StatusNames DEF BusyKnown, Status!Running
<1>7. ClientTold' /\ AgentsTold' /\ AgentsDue'
  BY <1>1, StatusNames
     DEF ClientTold, AgentsTold, AgentsDue, AttachPcs, Telling, Status!Visible
<1>8. DrawerTold'
  BY <1>1 DEF DrawerTold, Status!Visible
<1> QED
  BY <1>2, <1>3, <1>4, <1>6, <1>7, <1>8

LEMMA AttachedStatusInv ==
  ASSUME Status!StatusBounds, StatusInv, Status!Attached
  PROVE  StatusInv'
<1> USE DEF StatusInv, OutOfTurn, Status!session, Status!heard, Status!coalescer
<1>1. /\ worker.pc = "summary" /\ worker.sid \in Sessions /\ worker.sid \in touched
      /\ worker' = [worker EXCEPT !.pc = "save"]
      /\ binding' = worker.sid /\ busy' = worker.busy
      /\ listed' = Status!Never /\ heldList' = Status!Nothing /\ due' = Status!NoAgents
      /\ crossed' = {} /\ overtaken' = (held[worker.sid] # Status!Nothing)
      /\ UNCHANGED <<status, changes, events, deferred, observed, held, coming, client,
                     published, touched>>
  BY DEF Status!Attached, Status!Goes, Status!ResetSubagents, StatusRoles, StatusTypes, AttachPcs
<1>2. worker' = [pc |-> "save", sid |-> worker.sid, busy |-> worker.busy]
  BY <1>1 DEF StatusTypes, WorkerState
<1>3. StatusTypes'
  BY <1>1, <1>2, StatusNames DEF StatusTypes, WorkerState, AttachPcs, Reading, Status!Never
<1>4. StatusRoles'
  BY <1>1, <1>2, StatusNames DEF StatusRoles, AttachPcs
<1>5. NewestComes' /\ BusyKnown'
  BY <1>1, <1>2 DEF NewestComes, BusyKnown, Status!Running
<1>6. ClientTold'
  BY <1>1, <1>2 DEF ClientTold, Telling
<1>7. AgentsTold' /\ AgentsDue'
  BY <1>1, <1>2
     DEF AgentsTold, AgentsDue, AttachPcs, Telling, Same, Status!Visible, Status!Never
<1>8. DrawerTold'
  BY <1>1, DrawerStays DEF WorkerOnly
<1> QED
  BY <1>3, <1>4, <1>5, <1>6, <1>7, <1>8

LEMMA SavedStatusInv ==
  ASSUME Status!StatusBounds, StatusInv, Status!Saved
  PROVE  StatusInv'
<1> USE DEF StatusInv, OutOfTurn, Status!session, Status!heard, Status!coalescer, Status!lists, Status!marks
<1>1. /\ worker.pc = "save" /\ worker' = [worker EXCEPT !.pc = "list"]
      /\ client' = Status!ReadBusy(Status!ReadChanged(client, worker.sid), worker.sid, worker.busy)
      /\ UNCHANGED <<status, changes, events, binding, deferred, busy, observed, held, listed,
                     heldList, due, coming, crossed, published, touched, overtaken, lost>>
  BY DEF Status!Saved, Status!Goes
<1>2. worker' = [pc |-> "list", sid |-> worker.sid, busy |-> worker.busy]
  BY <1>1 DEF StatusTypes, WorkerState
<1>3. /\ binding = worker.sid /\ binding \in Sessions /\ busy = worker.busy
      /\ listed = Status!Never /\ heldList = Status!Nothing /\ due = Status!NoAgents
  BY <1>1 DEF StatusRoles, StatusTypes, AttachPcs
<1>4. client' = [on |-> client.on, synced |-> client.synced, whole |-> client.on,
                 sid |-> worker.sid, busy |-> client.on /\ worker.busy,
                 agents |-> Status!NoAgents]
  BY <1>1 DEF Status!ReadBusy, Status!ReadChanged, Status!Reset, StatusTypes, WorkerState,
       ClientState
<1>5. StatusTypes'
  <2>1. client' \in ClientState
    BY <1>3, <1>4, StatusNames DEF StatusTypes, ClientState
  <2> QED
    BY <1>1, <1>2, <2>1 DEF StatusTypes, WorkerState, AttachPcs
<1>6. StatusRoles' /\ NewestComes' /\ BusyKnown'
  BY <1>1, <1>2 DEF StatusRoles, NewestComes, BusyKnown, AttachPcs, Status!Running
<1>7. ClientTold'
  <2>1. client'.synced \/ client'.whole => client'.on /\ client'.sid = binding
    BY <1>3, <1>4 DEF ClientTold
  <2>2. client'.on => client'.busy = busy
    BY <1>3, <1>4 DEF StatusTypes
  <2> QED
    BY <1>1, <2>1, <2>2 DEF ClientTold
<1>8. AgentsTold' /\ AgentsDue'
  BY <1>1, <1>2, <1>3, <1>4
     DEF AgentsTold, AgentsDue, AttachPcs, Telling, Same, Status!Visible, Status!Never
<1>9. DrawerTold'
  BY <1>1, DrawerStays DEF WorkerOnly
<1> QED
  BY <1>5, <1>6, <1>7, <1>8, <1>9

\* A snapshot says what the bridge knows.
LEMMA SnapshotRead ==
  ASSUME Status!StatusBounds, StatusInv, client' = Status!ReadSnapshot(client, binding, busy)
  PROVE  /\ client' \in ClientState
         /\ client'.on = client.on /\ client'.whole = client.whole
         /\ IF client.on THEN client'.sid = binding /\ client'.busy = busy
            ELSE client' = client
         /\ client.sid = binding => client'.agents = client.agents
<1> USE DEF Status!ReadSnapshot, Status!Reset, StatusInv, StatusTypes, ClientState
<1>1. CASE client.sid = binding
  BY <1>1
<1>2. CASE client.sid # binding
  BY <1>2, StatusNames
<1> QED
  BY <1>1, <1>2

LEMMA SnapshotInv ==
  ASSUME Status!StatusBounds, StatusInv, Status!Snapshot \/ Status!Synced
  PROVE  StatusInv'
<1> USE DEF StatusInv, OutOfTurn, Status!session, Status!heard, Status!coalescer, Status!lists, Status!marks
<1>1. /\ \/ worker.pc = "list" /\ worker' = [worker EXCEPT !.pc = "replay"] /\ due' = coming
         \/ worker.pc = "sync" /\ worker' = Status!Rest /\ due' = due
      /\ client' = Status!ReadSnapshot(client, binding, busy)
      /\ UNCHANGED <<status, changes, events, binding, deferred, busy, observed, held, listed,
                     heldList, coming, crossed, published, touched, overtaken, lost>>
  BY DEF Status!Snapshot, Status!Synced, Status!Goes
<1>2. \/ /\ worker.pc = "list"
         /\ worker' = [pc |-> "replay", sid |-> worker.sid, busy |-> worker.busy]
         /\ due' = coming /\ binding = worker.sid
         /\ listed = Status!Never /\ heldList = Status!Nothing
      \/ /\ worker.pc = "sync" /\ worker' = Status!Rest /\ worker.sid = Status!NoSession
         /\ deferred = << >> /\ due' = due
  BY <1>1 DEF StatusTypes, WorkerState, StatusRoles, AttachPcs
<1>3. Telling
  BY <1>2 DEF Telling
<1>4. StatusTypes'
  <2>1. worker' \in WorkerState
    <3>1. CASE worker' = Status!Rest
      BY <3>1 DEF WorkerState, AttachPcs, Status!Rest
    <3>2. CASE worker' = [pc |-> "replay", sid |-> worker.sid, busy |-> worker.busy]
      BY <3>2 DEF StatusTypes, WorkerState, AttachPcs
    <3> QED
      BY <1>2, <3>1, <3>2
  <2> QED
    BY <1>1, <2>1, SnapshotRead DEF StatusTypes
<1>5. StatusRoles'
  BY <1>1, <1>2, StatusNames DEF StatusRoles, AttachPcs
<1>6. NewestComes' /\ BusyKnown'
  BY <1>1, <1>2, StatusNames DEF NewestComes, BusyKnown, Status!Running
<1>7. ClientTold'
  BY <1>1, <1>3, SnapshotRead DEF ClientTold, Telling
<1>8. AgentsTold'
  BY <1>1, <1>3, SnapshotRead DEF AgentsTold, ClientTold, Telling, Same, Status!Visible
<1>9. DrawerTold'
  BY <1>1, DrawerStays DEF WorkerOnly
<1>10. AgentsDue'
  BY <1>1, <1>2, StatusNames DEF AgentsDue, AttachPcs, Same, Status!Visible, Status!Never
<1> QED
  BY <1>4, <1>5, <1>6, <1>7, <1>8, <1>9, <1>10

LEMMA DetachStatusInv ==
  ASSUME Status!StatusBounds, StatusInv, Status!Detach
  PROVE  StatusInv'
<1> USE DEF StatusInv, OutOfTurn, Status!session, Status!heard, Status!coalescer
<1>1. /\ worker = Status!Rest
      /\ worker' = [pc |-> "detach", sid |-> Status!NoSession, busy |-> FALSE]
      /\ binding' = Status!NoSession /\ busy' = FALSE /\ overtaken' = FALSE
      /\ listed' = Status!Never /\ heldList' = Status!Nothing /\ due' = Status!NoAgents
      /\ crossed' = {}
      /\ UNCHANGED <<status, changes, events, deferred, observed, held, coming, client,
                     published, touched, lost>>
  BY DEF Status!Detach, Status!Begins, Status!Rest, Status!ResetSubagents
<1>2. deferred = << >>
  BY <1>1, StatusNames DEF StatusRoles, AttachPcs
<1>3. StatusTypes'
  BY <1>1, StatusNames DEF StatusTypes, WorkerState, AttachPcs, Reading, Status!Never
<1>4. StatusRoles'
  BY <1>1, <1>2 DEF StatusRoles, AttachPcs
<1>5. NewestComes' /\ BusyKnown'
  BY <1>1, StatusNames DEF NewestComes, BusyKnown, Status!Running
<1>6. ClientTold' /\ AgentsTold' /\ AgentsDue'
  BY <1>1, StatusNames DEF ClientTold, AgentsTold, AgentsDue, AttachPcs, Telling
<1>7. DrawerTold'
  BY <1>1, DrawerStays DEF WorkerOnly
<1> QED
  BY <1>3, <1>4, <1>5, <1>6, <1>7

LEMMA DetachedStatusInv ==
  ASSUME Status!StatusBounds, StatusInv, Status!Detached
  PROVE  StatusInv'
<1> USE DEF StatusInv, OutOfTurn, Status!session, Status!heard, Status!coalescer, Status!lists, Status!marks
<1>1. /\ worker.pc = "detach" /\ worker' = Status!Rest
      /\ client' = Status!ReadChanged(client, Status!NoSession)
      /\ UNCHANGED <<status, changes, events, binding, deferred, busy, observed, held, listed,
                     heldList, due, coming, crossed, published, touched, overtaken, lost>>
  BY DEF Status!Detached
<1>2. binding = Status!NoSession /\ busy = FALSE /\ deferred = << >>
  BY <1>1 DEF StatusRoles, StatusTypes, AttachPcs
<1>3. client' = [on |-> client.on, synced |-> client.synced, whole |-> client.on,
                 sid |-> Status!NoSession, busy |-> FALSE, agents |-> Status!NoAgents]
  BY <1>1 DEF Status!ReadChanged, Status!Reset, StatusTypes, ClientState
<1>4. StatusTypes'
  BY <1>1, <1>3, StatusNames DEF StatusTypes, WorkerState, ClientState, AttachPcs, Status!Rest
<1>5. StatusRoles'
  BY <1>1, <1>2, StatusNames DEF StatusRoles, AttachPcs
<1>6. NewestComes' /\ BusyKnown'
  BY <1>1, <1>2, StatusNames DEF NewestComes, BusyKnown, Status!Running
<1>7. ClientTold' /\ AgentsTold' /\ AgentsDue'
  <2>1. client'.synced \/ client'.whole => client'.on
    BY <1>3 DEF ClientTold
  <2>2. client'.busy = busy /\ client'.sid = binding
    BY <1>2, <1>3
  <2> QED
    BY <1>1, <1>2, <2>1, <2>2, StatusNames DEF ClientTold, AgentsTold, AgentsDue, AttachPcs
<1>8. DrawerTold'
  BY <1>1, DrawerStays DEF WorkerOnly
<1> QED
  BY <1>4, <1>5, <1>6, <1>7, <1>8

LEMMA SyncInv ==
  ASSUME Status!StatusBounds, StatusInv, Status!Sync
  PROVE  StatusInv'
<1> USE DEF StatusInv, OutOfTurn, Status!session, Status!heard, Status!coalescer, Status!lists, Status!marks
<1>1. /\ worker = Status!Rest
      /\ worker' = [pc |-> "sync", sid |-> Status!NoSession, busy |-> FALSE]
      /\ UNCHANGED <<status, changes, events, binding, deferred, busy, observed, held, listed,
                     heldList, due, coming, crossed, client, published, touched, overtaken, lost>>
  BY DEF Status!Sync, Status!Begins, Status!Rest
<1>2. deferred = << >>
  BY <1>1, StatusNames DEF StatusRoles, AttachPcs
<1>3. StatusTypes'
  BY <1>1 DEF StatusTypes, WorkerState, AttachPcs
<1>4. StatusRoles'
  BY <1>1, <1>2 DEF StatusRoles, AttachPcs
<1>5. NewestComes' /\ BusyKnown'
  BY <1>1, StatusNames DEF NewestComes, BusyKnown, Status!Running
<1>6. ClientTold' /\ AgentsTold' /\ AgentsDue'
  BY <1>1, StatusNames
     DEF ClientTold, AgentsTold, AgentsDue, AttachPcs, Telling, Status!Visible
<1>7. DrawerTold'
  BY <1>1, DrawerStays DEF WorkerOnly
<1> QED
  BY <1>3, <1>4, <1>5, <1>6, <1>7

\* Whatever is done with a change, it is what shows when the window closes.
LEMMA ShownAfter ==
  ASSUME NEW v, NEW was, NEW wait, v # Status!Nothing
  PROVE  LET after == Status!HeldAfter(v, was, wait) IN
         /\ after \in {v, wait, Status!Nothing}
         /\ Status!Publishes(v, was, wait) => after = Status!Nothing /\ was.recent = FALSE
         /\ ~Status!Publishes(v, was, wait) => Status!Visible(was, after) = v
  BY DEF Status!HeldAfter, Status!Publishes, Status!Visible

\* What is done with a status or a list that comes.  None of it is of the
\* worker's session while it attaches; while it replays, all of it.
LEMMA HandleInv ==
  ASSUME Status!StatusBounds, StatusInv, NEW e \in StatusEvent, Status!Handle(e),
         worker.pc \in {"save", "list"} => e.sid # worker.sid,
         UNCHANGED <<status, changes, binding, touched, overtaken, lost>>,
         Telling' = Telling,
         \A s \in Sessions \ touched :
             /\ ~Tells("status", e, s) => (Silent("status", events', s) <=> Silent("status", events, s))
             /\ Tells("status", e, s) /\ Silent("status", events', s) => e.value = status[s]
  PROVE  /\ observed' \in [Sessions -> Reading(Status!Statuses)] /\ busy' \in BOOLEAN
         /\ held' \in [Sessions -> Status!Statuses \cup {Status!Nothing}]
         /\ published' \in [Sessions -> Status!Statuses \cup {Status!Nothing}]
         /\ listed' \in Reading(Lists) /\ heldList' \in Lists \cup {Status!Nothing}
         /\ client' \in ClientState
         /\ ClientTold' /\ AgentsTold' /\ DrawerTold'
         /\ IF Tells("status", e, binding) THEN busy' = (e.value # "idle") ELSE busy' = busy
         /\ worker.pc \in {"save", "list"} =>
               busy' = busy /\ listed' = listed /\ heldList' = heldList
         /\ IF Tells("agents", e, binding) THEN Status!Visible(listed', heldList') = e.value
            ELSE Status!Visible(listed', heldList') = Status!Visible(listed, heldList)
<1> USE DEF StatusInv, OutOfTurn
<1>0. /\ e.sid \in Sessions /\ e.kind \in {"status", "agents"}
      /\ e.kind = "status" => e.value \in Status!Statuses /\ e.value # Status!Nothing
      /\ e.kind = "agents" => e.value \in Lists /\ e.value # Status!Nothing
  BY StatusNames DEF StatusEvent
<1>1. worker.pc \in {"save", "list"} => e.sid # binding
  BY DEF StatusRoles
<1>2. CASE /\ e.kind = "status" /\ e.sid = binding /\ busy' = (e.value # "idle")
           /\ Status!EmitStatus(e.sid, e.value)
           /\ UNCHANGED <<observed, held, listed, heldList>>
  <2>1. /\ published' = [published EXCEPT ![binding] = e.value]
        /\ client' = Status!ReadBusy(client, binding, busy') /\ busy' \in BOOLEAN
    BY <1>2 DEF Status!EmitStatus
  <2>2. binding \in touched
    BY <1>0, <1>2, StatusNames DEF StatusRoles
  <2>3. ClientTold' /\ AgentsTold'
    BY <1>2, <2>1, BusyRead DEF ClientTold, AgentsTold, Telling, Status!Visible
  <2>4. DrawerTold'
    BY <1>2, <2>1, <2>2 DEF DrawerTold, StatusTypes, Tells, Status!Visible
  <2>5. published' \in [Sessions -> Status!Statuses \cup {Status!Nothing}]
    BY <1>0, <1>2, <2>1 DEF StatusTypes
  <2> QED
    BY <1>1, <1>2, <2>1, <2>3, <2>4, <2>5, BusyRead DEF StatusTypes, Tells, Status!Visible
<1>3. CASE /\ e.kind = "agents" /\ e.sid # binding
           /\ UNCHANGED <<busy, observed, held, listed, heldList, client, published>>
  BY <1>3 DEF StatusTypes, Tells, ClientTold, AgentsTold, Telling, DrawerTold, Status!Visible
<1>4. CASE e.kind = "agents" /\ e.sid = binding /\ Status!ObserveList(e.sid, e.value)
  <2>1. /\ Tells("agents", e, binding) /\ heldList' = Status!HeldAfter(e.value, listed, heldList)
        /\ UNCHANGED <<busy, observed, held, published>>
    BY <1>4 DEF Status!ObserveList, Status!coalescer, Tells
  <2>2. heldList' \in Lists \cup {Status!Nothing}
    <3>1. heldList' \in {e.value, heldList, Status!Nothing}
      BY <1>0, <1>4, <2>1, ShownAfter
    <3> QED
      BY <1>0, <1>4, <3>1 DEF StatusTypes
  <2>3. DrawerTold' /\ ~Tells("status", e, binding)
    BY <1>4, <2>1 DEF DrawerTold, Status!Visible, Tells
  <2>4. CASE /\ Status!Publishes(e.value, listed, heldList)
             /\ listed' = [seen |-> e.value, recent |-> TRUE]
             /\ client' = Status!ReadAgents(client, binding, e.value)
    <3>1. listed' \in Reading(Lists)
      BY <1>0, <1>4, <2>4 DEF Reading
    <3>2. heldList' = Status!Nothing
      BY <1>0, <1>4, <2>1, <2>4, ShownAfter
    <3>3. ClientTold'
      BY <1>0, <1>4, <2>1, <2>4, AgentsRead DEF ClientTold
    <3>4. AgentsTold'
      <4>1. Telling /\ client.whole => client'.agents = e.value
        BY <1>0, <1>4, <2>4, AgentsRead DEF ClientTold
      <4>2. client'.whole = client.whole
        BY <1>0, <1>4, <2>4, AgentsRead
      <4> QED
        BY <2>4, <4>1, <4>2 DEF AgentsTold, Same, Telling
    <3>5. Status!Visible(listed', heldList') = e.value
      BY <2>4, <3>2 DEF Status!Visible
    <3>6. client' \in ClientState
      BY <1>0, <1>4, <2>4, AgentsRead
    <3> QED
      BY <1>1, <1>4, <2>1, <2>2, <2>3, <3>1, <3>3, <3>4, <3>5, <3>6 DEF StatusTypes
  <2>5. CASE ~Status!Publishes(e.value, listed, heldList) /\ UNCHANGED <<listed, client>>
    <3>1. Status!Visible(listed, heldList') = e.value
      BY <1>0, <1>4, <2>1, <2>5, ShownAfter
    <3>2. AgentsTold'
      BY <2>5 DEF AgentsTold, Telling
    <3>3. ClientTold'
      BY <2>1, <2>5 DEF ClientTold
    <3> QED
      BY <1>1, <1>4, <2>1, <2>2, <2>3, <2>5, <3>1, <3>2, <3>3 DEF StatusTypes
  <2> QED
    BY <1>4, <2>4, <2>5 DEF Status!ObserveList
<1>5. CASE e.kind = "status" /\ e.sid # binding /\ Status!ObserveStatus(e.sid, e.value)
  <2> DEFINE s == e.sid
             v == e.value
  <2>1. /\ held' = [held EXCEPT ![s] = Status!HeldAfter(v, observed[s], held[s])]
        /\ UNCHANGED <<busy, listed, heldList>> /\ s \in Sessions
        /\ v \in Status!Statuses /\ v # Status!Nothing /\ ~Tells("status", e, binding)
        /\ \A r \in Sessions : r # s => ~Tells("status", e, r)
        /\ Tells("status", e, s) /\ s # binding /\ ~Tells("agents", e, binding)
        /\ Status!Visible(listed', heldList') = Status!Visible(listed, heldList)
    BY <1>0, <1>5 DEF Status!ObserveStatus, Status!lists, Status!Visible, Tells
  <2>2. /\ held' \in [Sessions -> Status!Statuses \cup {Status!Nothing}]
        /\ \A r \in Sessions : r # s => held'[r] = held[r]
        /\ held'[s] = Status!HeldAfter(v, observed[s], held[s])
    <3> HIDE DEF s, v
    <3>1. Status!HeldAfter(v, observed[s], held[s]) \in {v, held[s], Status!Nothing}
      BY <2>1, ShownAfter
    <3> QED
      BY <2>1, <3>1 DEF StatusTypes
  <2>21. /\ Status!Publishes(v, observed[s], held[s]) => held'[s] = Status!Nothing
         /\ ~Status!Publishes(v, observed[s], held[s]) =>
                Status!Visible(observed[s], held'[s]) = v
    <3> HIDE DEF s, v
    <3>1. ASSUME NEW was, NEW wait
          PROVE  LET after == Status!HeldAfter(v, was, wait) IN
                 /\ Status!Publishes(v, was, wait) => after = Status!Nothing
                 /\ ~Status!Publishes(v, was, wait) => Status!Visible(was, after) = v
      BY <2>1, ShownAfter, Zenon
    <3> QED
      BY <2>2, <3>1
  <2>3. CASE /\ Status!Publishes(v, observed[s], held[s])
             /\ observed' = [observed EXCEPT ![s] = [seen |-> v, recent |-> TRUE]]
             /\ Status!EmitStatus(s, v)
    <3>1. observed' \in [Sessions -> Reading(Status!Statuses)]
      BY <2>1, <2>3 DEF StatusTypes, Reading
    <3>2. /\ published' = [published EXCEPT ![s] = v]
          /\ client' = Status!ReadBusy(client, s, v # "idle") /\ (v # "idle") \in BOOLEAN
      BY <2>3 DEF Status!EmitStatus
    <3>3. held'[s] = Status!Nothing
      BY <2>21, <2>3
    <3>4. ClientTold'
      BY <2>1, <2>2, <3>2, <3>3, BusyRead DEF ClientTold, StatusTypes
    <3>5. AgentsTold'
      BY <2>1, <3>2, BusyRead DEF AgentsTold, Telling
    <3>6. DrawerTold'
      <4> SUFFICES ASSUME NEW r \in Sessions \ touched
                   PROVE  /\ published'[r] = observed'[r].seen
                          /\ Silent("status", events', r) =>
                                LET shown == Status!Visible(observed'[r], held'[r]) IN
                                \/ shown = status[r]
                                \/ shown = Status!Nothing /\ status[r] = "idle"
        BY DEF DrawerTold
      <4>1. CASE r = s
        BY <2>1, <2>3, <3>2, <3>3, <4>1 DEF StatusTypes, Status!Visible
      <4>2. CASE r # s
        BY <2>1, <2>2, <2>3, <3>2, <4>2 DEF DrawerTold, StatusTypes
      <4> QED
        BY <4>1, <4>2
    <3>7. published' \in [Sessions -> Status!Statuses \cup {Status!Nothing}]
      BY <2>1, <3>2 DEF StatusTypes
    <3> QED
      BY <2>1, <2>2, <3>1, <3>2, <3>4, <3>5, <3>6, <3>7, BusyRead DEF StatusTypes
  <2>4. CASE /\ ~Status!Publishes(v, observed[s], held[s])
             /\ UNCHANGED <<observed, published, client>>
    <3>1. Status!Visible(observed[s], held'[s]) = v
      BY <2>21, <2>4
    <3>2. ClientTold'
      BY <2>1, <2>2, <2>4 DEF ClientTold, StatusTypes
    <3>3. AgentsTold'
      BY <2>1, <2>4 DEF AgentsTold, Telling
    <3>4. DrawerTold'
      <4> SUFFICES ASSUME NEW r \in Sessions \ touched
                   PROVE  /\ published[r] = observed[r].seen
                          /\ Silent("status", events', r) =>
                                LET shown == Status!Visible(observed[r], held'[r]) IN
                                \/ shown = status[r]
                                \/ shown = Status!Nothing /\ status[r] = "idle"
        BY <2>4 DEF DrawerTold
      <4>1. CASE r = s
        BY <2>1, <3>1, <4>1 DEF DrawerTold
      <4>2. CASE r # s
        BY <2>1, <2>2, <4>2 DEF DrawerTold
      <4> QED
        BY <4>1, <4>2
    <3> QED
      BY <2>1, <2>2, <2>4, <3>2, <3>3, <3>4 DEF StatusTypes
  <2> QED
    BY <1>5, <2>3, <2>4 DEF Status!ObserveStatus
<1> QED
  BY <1>2, <1>3, <1>4, <1>5 DEF Status!Handle, Status!coalescer, Status!lists

LEMMA TakeStatusInv ==
  ASSUME Status!StatusBounds, StatusInv, Status!TakeEvent
  PROVE  StatusInv'
<1> DEFINE e == Head(events)
<1> USE DEF StatusInv, OutOfTurn, Status!session, Status!heard, Status!marks
<1>1. /\ events \in Seq(StatusEvent) /\ events # << >> /\ Status!Hear(e)
      /\ events' = Tail(events) /\ e \in StatusEvent /\ events' \in Seq(StatusEvent)
      /\ UNCHANGED <<status, changes, binding, worker, actions, touched, overtaken, lost>>
  BY DEF Status!TakeEvent, StatusTypes
<1>2. \A s \in Sessions : Silent("status", events, s) <=> Silent("status", events', s) /\ ~Tells("status", e, s)
  BY <1>1, Taken
<1>3. \A s \in Sessions : EndsIn("status", events', s, status[s])
  BY <1>1, Taken DEF NewestComes
<1>4. \A s \in Sessions : Tells("status", e, s) /\ Silent("status", events', s) => e.value = status[s]
  BY <1>1, Taken DEF NewestComes
<1> HIDE DEF e
<1>5. CASE Status!Attaching(e.sid) /\ deferred' = Append(deferred, e)
           /\ UNCHANGED <<busy, observed, held, listed, heldList, client, published>>
  <2>1. /\ worker.pc \in {"attach", "summary", "save", "list"} /\ worker.sid = e.sid
        /\ e.sid \in touched /\ due' = due /\ crossed' = crossed
        /\ coming' = IF e.kind = "agents" THEN e.value ELSE coming
    BY <1>1, <1>5 DEF Status!Attaching, Status!Hear, StatusRoles, AttachPcs
  <2>2. StatusTypes'
    <3>1. coming' \in Lists
      BY <1>1, <2>1 DEF StatusTypes, StatusEvent
    <3> QED
      BY <1>1, <1>5, <2>1, <3>1, Added DEF StatusTypes
  <2>3. StatusRoles'
    <3>1. \A i \in DOMAIN deferred' : deferred'[i].sid = worker.sid
      BY <1>1, <1>5, <2>1 DEF StatusRoles, StatusTypes
    <3> QED
      BY <1>1, <1>5, <2>1, <3>1 DEF StatusRoles, AttachPcs
  <2>4. \A s \in Sessions : Silent("status", deferred', s) <=> Silent("status", deferred, s) /\ ~Tells("status", e, s)
    BY <1>1, <1>5, Added DEF StatusTypes
  <2>5. NewestComes'
    <3> SUFFICES ASSUME NEW s \in Sessions, Silent("status", events', s)
                 PROVE  EndsIn("status", deferred', s, status[s])
      BY <1>1, <1>3 DEF NewestComes
    <3>0. worker.pc # "replay"
      BY <2>1
    <3>1. CASE Tells("status", e, s)
      BY <1>1, <1>4, <1>5, <3>1, Added DEF StatusTypes
    <3>2. CASE ~Tells("status", e, s)
      <4>1. EndsIn("status", deferred, s, status[s])
        BY <1>2, <3>0, <3>2 DEF NewestComes
      <4> QED
        BY <1>1, <1>5, <3>2, <4>1, Added DEF StatusTypes
    <3> QED
      BY <3>1, <3>2
  <2>6. BusyKnown'
    BY <1>1, <1>2, <1>5, <2>1, <2>4 DEF BusyKnown, Status!Running
  <2>7. ClientTold' /\ AgentsTold'
    BY <1>1, <1>5 DEF ClientTold, AgentsTold, Telling, Status!Visible
  <2>8. DrawerTold'
    BY <1>1, <1>2, <1>5, <2>1 DEF DrawerTold, Tells, Status!Visible
  <2>9. AgentsDue'
    <3>1. /\ Silent("agents", deferred', worker.sid) <=>
                Silent("agents", deferred, worker.sid) /\ e.kind # "agents"
          /\ e.kind = "agents" =>
                (EndsIn("agents", deferred', worker.sid, coming') <=> e.value = coming')
          /\ e.kind # "agents" /\ EndsIn("agents", deferred, worker.sid, coming') =>
                EndsIn("agents", deferred', worker.sid, coming')
      <4>1. Tells("agents", e, worker.sid) <=> e.kind = "agents"
        BY <2>1 DEF Tells
      <4> QED
        BY <1>1, <1>5, <4>1, Added DEF StatusTypes
    <3>2. worker.pc \in AttachPcs \ {"replay"}
      BY <2>1 DEF AttachPcs
    <3>3. /\ EndsIn("agents", deferred, worker.sid, coming)
          /\ Silent("agents", deferred, worker.sid) => coming = Status!NoAgents
      BY <3>2 DEF AgentsDue
    <3>4. /\ EndsIn("agents", deferred', worker.sid, coming')
          /\ Silent("agents", deferred', worker.sid) => coming' = Status!NoAgents
      BY <2>1, <3>1, <3>3
    <3> QED
      BY <1>1, <1>5, <2>1, <3>4 DEF AgentsDue, Status!Visible
  <2> QED
    BY <2>2, <2>3, <2>5, <2>6, <2>7, <2>8, <2>9
<1>6. CASE ~Status!Attaching(e.sid) /\ Status!Handle(e) /\ UNCHANGED deferred
  <2>1. worker.pc \in {"save", "list"} => e.sid # worker.sid
    BY <1>6 DEF Status!Attaching
  <2>2. /\ observed' \in [Sessions -> Reading(Status!Statuses)] /\ busy' \in BOOLEAN
        /\ held' \in [Sessions -> Status!Statuses \cup {Status!Nothing}]
        /\ published' \in [Sessions -> Status!Statuses \cup {Status!Nothing}]
        /\ listed' \in Reading(Lists) /\ heldList' \in Lists \cup {Status!Nothing}
        /\ client' \in ClientState
        /\ ClientTold' /\ AgentsTold' /\ DrawerTold'
        /\ IF Tells("status", e, binding) THEN busy' = (e.value # "idle") ELSE busy' = busy
        /\ worker.pc \in {"save", "list"} =>
              busy' = busy /\ listed' = listed /\ heldList' = heldList
        /\ IF Tells("agents", e, binding) THEN Status!Visible(listed', heldList') = e.value
           ELSE Status!Visible(listed', heldList') = Status!Visible(listed, heldList)
    BY <1>1, <1>2, <1>4, <1>6, <2>1, HandleInv DEF Telling
  <2>21. /\ coming' = coming
         /\ due' = IF Tells("agents", e, binding) THEN e.value ELSE due
         /\ crossed' = IF e.sid # binding THEN crossed
                       ELSE IF Status!Overtakes(e) THEN crossed \cup {e.kind}
                       ELSE crossed \ {e.kind}
    BY <1>1, <1>6 DEF Status!Hear, Tells
  <2>22. e.kind \in {"status", "agents"} /\ (e.kind = "agents" => e.value \in Lists)
    BY <1>1 DEF StatusEvent
  <2>3. StatusTypes'
    <3>1. due' \in Lists /\ coming' \in Lists /\ crossed' \subseteq {"status", "agents"}
      BY <2>21, <2>22 DEF StatusTypes, Tells
    <3> QED
      BY <1>1, <1>6, <2>2, <3>1 DEF StatusTypes
  <2>4. StatusRoles'
    <3>1. binding = Status!NoSession => ~busy'
      BY <1>1, <2>2, StatusNames DEF StatusRoles, StatusEvent, Tells
    <3>2. worker.pc \in {"save", "list"} => due' = due
      BY <2>1, <2>21 DEF StatusRoles, Tells
    <3> QED
      BY <1>1, <1>6, <2>2, <3>1, <3>2 DEF StatusRoles, AttachPcs
  <2>5. NewestComes'
    <3> SUFFICES ASSUME NEW s \in Sessions, Silent("status", events', s), ~OutOfTurn("status", s)'
                 PROVE  EndsIn("status", deferred, s, status[s])
      BY <1>1, <1>3, <1>6 DEF NewestComes
    <3>1. CASE ~Tells("status", e, s)
      <4>1. ~OutOfTurn("status", s)
        BY <1>1, <2>21, <2>22, <3>1 DEF StatusRoles, Tells
      <4> QED
        BY <1>2, <3>1, <4>1 DEF NewestComes
    <3>2. CASE Tells("status", e, s)
      <4>1. CASE worker.sid # s \/ deferred = << >>
        BY <4>1 DEF StatusRoles, EndsIn, Tells
      <4>2. CASE worker.sid = s /\ deferred # << >>
        <5>1. worker.pc = "replay" /\ binding = s
          BY <1>6, <3>2, <4>2 DEF Status!Attaching, StatusRoles, AttachPcs, Tells
        <5>2. ~Status!Overtakes(e)
          BY <1>1, <2>21, <3>2, <4>2, <5>1 DEF Tells
        <5> QED
          BY <3>2, <5>1, <5>2 DEF Status!Overtakes, EndsIn, Tells
      <4> QED
        BY <4>1, <4>2
    <3> QED
      BY <3>1, <3>2
  <2>6. BusyKnown'
    <3> SUFFICES ASSUME NEW s \in Sessions, Silent("status", events', s), Silent("status", deferred, s)
                 PROVE  /\ binding = s /\ s \notin lost /\ "status" \notin crossed' =>
                              busy' = Status!Running(s)
                        /\ worker.sid = s /\ worker.pc = "summary" =>
                              worker.busy = Status!Running(s)
      BY <1>1, <1>6 DEF BusyKnown, Status!Running
    <3>1. CASE ~Tells("status", e, s)
      <4>1. binding = s => ("status" \in crossed' <=> "status" \in crossed)
        BY <2>21, <2>22, <3>1 DEF Tells
      <4> QED
        BY <1>2, <2>2, <3>1, <4>1 DEF BusyKnown
    <3>2. CASE Tells("status", e, s)
      <4>1. binding = s => busy' = Status!Running(s)
        BY <1>4, <2>2, <3>2 DEF Status!Running
      <4>2. ~(worker.sid = s /\ worker.pc = "summary")
        BY <1>6, <3>2 DEF Status!Attaching, Tells
      <4> QED
        BY <4>1, <4>2
    <3> QED
      BY <3>1, <3>2
  <2>7. AgentsDue'
    <3> SUFFICES ASSUME binding # Status!NoSession, "agents" \notin crossed'
                 PROVE  /\ worker.pc = "replay" => EndsIn("agents", deferred, binding, due')
                        /\ worker.pc # "replay" \/ Silent("agents", deferred, binding) =>
                              Same(Status!Visible(listed', heldList'), due')
      BY <1>1, <1>6, <2>21 DEF AgentsDue
    <3>1. CASE ~Tells("agents", e, binding)
      <4>1. "agents" \notin crossed
        BY <2>21, <2>22, <3>1 DEF Tells
      <4> QED
        BY <2>2, <2>21, <3>1, <4>1 DEF AgentsDue
    <3>2. CASE Tells("agents", e, binding)
      <4>1. due' = e.value /\ Status!Visible(listed', heldList') = e.value
        BY <2>2, <2>21, <3>2
      <4>2. worker.pc = "replay" => Silent("agents", deferred, binding)
        BY <2>21, <3>2 DEF Status!Overtakes, Silent, Tells
      <4> QED
        BY <4>1, <4>2 DEF EndsIn, Silent, Same
    <3> QED
      BY <3>1, <3>2
  <2> QED
    BY <2>2, <2>3, <2>4, <2>5, <2>6, <2>7
<1> QED
  BY <1>5, <1>6 DEF Status!TakeEvent, Status!coalescer, Status!lists, e

LEMMA ReplayInv ==
  ASSUME Status!StatusBounds, StatusInv, Status!Replay
  PROVE  StatusInv'
<1> USE DEF StatusInv, OutOfTurn, Status!session, Status!heard, Status!marks
<1>1. /\ worker.pc = "replay" /\ binding = worker.sid /\ binding \in touched
      /\ binding \in Sessions /\ deferred \in Seq(StatusEvent)
      /\ UNCHANGED <<status, changes, events, binding, actions, due, coming, crossed, touched,
                     overtaken, lost>>
  BY DEF Status!Replay, StatusRoles, StatusTypes, AttachPcs
<1>2. CASE /\ deferred = << >> /\ worker' = Status!Rest
           /\ UNCHANGED <<deferred, busy, observed, held, listed, heldList, client, published>>
  <2>1. StatusTypes'
    BY <1>1, <1>2 DEF StatusTypes, WorkerState, AttachPcs, Status!Rest
  <2>2. StatusRoles'
    BY <1>1, <1>2, StatusNames DEF StatusRoles, AttachPcs
  <2>3. NewestComes' /\ BusyKnown'
    BY <1>1, <1>2, StatusNames, NothingTold DEF NewestComes, BusyKnown, Status!Running
  <2>4. ClientTold' /\ AgentsTold' /\ DrawerTold' /\ AgentsDue'
    BY <1>1, <1>2, StatusNames, NothingTold
       DEF ClientTold, AgentsTold, DrawerTold, AgentsDue, AttachPcs, Telling, Status!Visible
  <2> QED
    BY <2>1, <2>2, <2>3, <2>4
<1>3. ASSUME deferred # << >>, Status!Handle(Head(deferred)), deferred' = Tail(deferred),
             UNCHANGED worker
      PROVE  StatusInv'
  <2> DEFINE e == Head(deferred)
  <2>1. /\ e \in StatusEvent /\ deferred' \in Seq(StatusEvent) /\ e.sid = worker.sid
        /\ \A i \in DOMAIN deferred' : deferred'[i].sid = worker.sid
    BY <1>1, <1>3 DEF StatusRoles
  <2>2. /\ Silent("status", deferred, binding) <=> Silent("status", deferred', binding) /\ ~Tells("status", e, binding)
        /\ \A v : EndsIn("status", deferred, binding, v) => EndsIn("status", deferred', binding, v)
        /\ \A v : EndsIn("status", deferred, binding, v) /\ Silent("status", deferred', binding)
                  /\ Tells("status", e, binding) => e.value = v
    BY <1>1, <1>3, Taken
  <2>3. \A s \in Sessions : s # binding => Silent("status", deferred, s) /\ EndsIn("status", deferred', s, status[s])
    BY <1>1, <2>1 DEF StatusRoles, Silent, EndsIn, Tells
  <2>4. \A s \in Sessions : Tells("status", e, s) => s = binding
    BY <1>1, <2>1 DEF Tells
  <2> HIDE DEF e
  <2>5. /\ observed' \in [Sessions -> Reading(Status!Statuses)] /\ busy' \in BOOLEAN
        /\ held' \in [Sessions -> Status!Statuses \cup {Status!Nothing}]
        /\ published' \in [Sessions -> Status!Statuses \cup {Status!Nothing}]
        /\ listed' \in Reading(Lists) /\ heldList' \in Lists \cup {Status!Nothing}
        /\ client' \in ClientState
        /\ ClientTold' /\ AgentsTold' /\ DrawerTold'
        /\ IF Tells("status", e, binding) THEN busy' = (e.value # "idle") ELSE busy' = busy
        /\ IF Tells("agents", e, binding) THEN Status!Visible(listed', heldList') = e.value
           ELSE Status!Visible(listed', heldList') = Status!Visible(listed, heldList)
    <3>1. Status!Handle(e)
      BY <1>3 DEF e
    <3>2. \A s \in Sessions \ touched : ~Tells("status", e, s) /\ (Silent("status", events', s) <=> Silent("status", events, s))
      BY <1>1, <2>4
    <3> QED
      BY <1>1, <1>3, <2>1, <3>1, <3>2, HandleInv DEF Telling
  <2>6. StatusTypes'
    BY <1>1, <1>3, <2>1, <2>5 DEF StatusTypes
  <2>7. StatusRoles'
    BY <1>1, <1>3, <2>1, <2>5, StatusNames DEF StatusRoles, AttachPcs
  <2>8. NewestComes'
    BY <1>1, <1>3, <2>2, <2>3 DEF NewestComes
  <2>9. BusyKnown'
    <3> SUFFICES ASSUME Silent("status", events, binding), Silent("status", deferred', binding),
                        binding \notin lost, "status" \notin crossed
                 PROVE  busy' = Status!Running(binding)
      BY <1>1, <1>3 DEF BusyKnown, Status!Running
    <3>1. CASE Tells("status", e, binding)
      BY <1>1, <2>2, <2>5, <3>1 DEF NewestComes, Status!Running
    <3>2. CASE ~Tells("status", e, binding)
      BY <1>1, <2>2, <2>5, <3>2 DEF BusyKnown
    <3> QED
      BY <3>1, <3>2
  <2>10. AgentsDue'
    <3>1. /\ Silent("agents", deferred, binding) <=>
                Silent("agents", deferred', binding) /\ ~Tells("agents", e, binding)
          /\ EndsIn("agents", deferred, binding, due) => EndsIn("agents", deferred', binding, due)
          /\ EndsIn("agents", deferred, binding, due) /\ Silent("agents", deferred', binding)
                /\ Tells("agents", e, binding) => e.value = due
      BY <1>1, <1>3, Taken DEF e
    <3> SUFFICES ASSUME "agents" \notin crossed
                 PROVE  /\ EndsIn("agents", deferred', binding, due)
                        /\ Silent("agents", deferred', binding) =>
                              Same(Status!Visible(listed', heldList'), due)
      BY <1>1, <1>3 DEF AgentsDue
    <3>2. /\ EndsIn("agents", deferred, binding, due)
          /\ Silent("agents", deferred, binding) => Same(Status!Visible(listed, heldList), due)
      BY <1>1, StatusNames DEF AgentsDue
    <3>3. ASSUME Silent("agents", deferred', binding)
          PROVE  Same(Status!Visible(listed', heldList'), due)
      <4>1. CASE Tells("agents", e, binding)
        BY <2>5, <3>1, <3>2, <3>3, <4>1 DEF Same
      <4>2. CASE ~Tells("agents", e, binding)
        BY <2>5, <3>1, <3>2, <3>3, <4>2
      <4> QED
        BY <4>1, <4>2
    <3> QED
      BY <3>1, <3>2, <3>3
  <2> QED
    BY <2>5, <2>6, <2>7, <2>8, <2>9, <2>10
<1> QED
  BY <1>2, <1>3 DEF Status!Replay, Status!coalescer, Status!lists

LEMMA StatusStep ==
  ASSUME Status!StatusBounds, StatusInv, [Status!Next]_(Status!vars)
  PROVE  StatusInv'
<1>1. CASE Status!Next
  BY <1>1, JoinsInv, ReportInv, TakeStatusInv, FlushStatusInv, BeginsInv, FlushListInv, WindowInv,
     SummaryStatusInv, AttachFailsStatusInv, AttachedStatusInv, SavedStatusInv, SnapshotInv,
     ReplayInv, DetachStatusInv, DetachedStatusInv, SyncInv DEF Status!Next
<1>2. CASE UNCHANGED Status!vars
  BY <1>2, AgentsDueStays
     DEF StatusInv, StatusTypes, StatusRoles, NewestComes, OutOfTurn, BusyKnown, ClientTold,
     AgentsTold, DrawerTold, Telling, Status!heard, Status!vars, Status!session, Status!actor, Status!coalescer,
     Status!lists, Status!marks, Status!Running, Status!Visible
<1> QED
  BY <1>1, <1>2

\* When nothing is under way, what was told is all there is.
LEMMA StatusQuiet ==
  ASSUME Status!StatusBounds, StatusInv
  PROVE  Status!StatusShownIsNewest /\ Status!AgentsShownAreNewest
<1> USE DEF StatusInv, OutOfTurn
<1>1. Status!TypeOK
  BY DEF Status!TypeOK, StatusTypes, StatusRoles, ClientState, AttachPcs
<1>2. ASSUME Status!Quiet
      PROVE  /\ Telling /\ worker.pc = "idle" /\ heldList = Status!Nothing /\ \A s \in Sessions : held[s] = Status!Nothing
             /\ \A s : Silent("status", events, s) /\ Silent("status", deferred, s)
  BY <1>2, StatusNames, NothingTold DEF Status!Quiet, Telling, StatusRoles, AttachPcs
<1>3. Status!DrawerIsNewest
  BY <1>2 DEF Status!DrawerIsNewest, DrawerTold, Status!Visible, Status!Running
<1>4. Status!BusyShownIsTrue
  BY <1>2 DEF Status!BusyShownIsTrue, BusyKnown, ClientTold
<1>5. Status!AgentsShownAreNewest
  BY <1>2, StatusNames DEF Status!AgentsShownAreNewest, AgentsTold, AgentsDue, Same, Status!Visible, StatusTypes,
     ClientState
<1> QED
  BY <1>1, <1>3, <1>4, <1>5 DEF Status!StatusShownIsNewest

\* Clients are shown the newest status of the bound session and of those no
\* attach has named, unless it went past an older one that was being replayed:
\* _emit_observed_status, _action_attach and their clients.
THEOREM StatusesAreNewest ==
  ASSUME Status!StatusBounds PROVE Status!Spec => []Status!StatusShownIsNewest
<1>1. Status!Init => StatusInv
  BY StatusInit
<1>2. StatusInv /\ [Status!Next]_(Status!vars) => StatusInv'
  BY StatusStep
<1>3. StatusInv => Status!StatusShownIsNewest
  BY StatusQuiet
<1> QED
  BY <1>1, <1>2, <1>3, PTL DEF Status!Spec

\* A client that saw the binding change shows the session's last list of
\* subagents, unless it went past an older one: _emit_subagents, _reset_subagents and HarnessState.apply.
THEOREM AgentsAreNewest ==
  ASSUME Status!StatusBounds PROVE Status!Spec => []Status!AgentsShownAreNewest
<1>1. Status!Init => StatusInv
  BY StatusInit
<1>2. StatusInv /\ [Status!Next]_(Status!vars) => StatusInv'
  BY StatusStep
<1>3. StatusInv => Status!AgentsShownAreNewest
  BY StatusQuiet
<1> QED
  BY <1>1, <1>2, <1>3, PTL DEF Status!Spec
-----------------------------------------------------------------------------
(* IrcLink                                                                 *)

LinkNames == Channels \cup Tasks
LineKinds == {"JOIN", "ASK", "PART", "MSG", "FLUSH", "SET", "MODE", "INVITE", "473", "442",
              "324", "341", "331", "332", "KICK", "TOPIC"}
LinkLine == [k : LineKinds, c : LinkNames, v : {"none", "on", "stray", "closed"} \cup Nat]
LinkRequest == [t : Tasks, c : LinkNames, k : LineKinds, v : {"none", "on"},
                st : {"sent", "done", "failed"}]
ClosePcs == {"awaitClose", "flush", "flushing", "clear", "part"}
LoopPcs == ClosePcs \cup {"idle", "awaitFix", "rePrivate", "reTopic"}
LinkPcs == LoopPcs \cup {"join", "private", "topic", "invite", "undo", "unset", "leave"}

LinkTypes ==
    /\ up \in Seq(LinkLine) /\ down \in Seq(LinkLine)
    /\ out \in Seq(LinkLine) /\ got \in Seq(LinkLine)
    /\ said \in Nat /\ accepted \subseteq Channels
    /\ at \in [Tasks -> LinkPcs] /\ at["loop"] \in LoopPcs
    /\ control = Nothing \/ control \in LinkRequest

\* Nobody says anything more in a channel that is being closed, or was.
Hushed(c) == c \in created /\ (c \in closing \/ c \notin known)

\* What is under way, and for which channel.
LinkRoles ==
    /\ known \subseteq created /\ created \subseteq Managed
    /\ active \subseteq known \cup Static
    /\ \A t \in Managed : at[t] # "idle" => t \in created
    /\ control # Nothing => at[control.t] \in DOMAIN Asks
    /\ \A t \in Tasks : at[t] \in ClosePcs => Hushed(Subject(t))

\* A mark in the queue is that of a task that waits for it, and its only one.
IsMark(m, t) == m.k = "FLUSH" /\ m.c = t
Marks ==
    /\ \A i \in DOMAIN out : out[i].k = "FLUSH" =>
          out[i].c \in Tasks /\ at[out[i].c] = "flushing"
    /\ \A i, j \in DOMAIN out : out[i].k = "FLUSH" /\ IsMark(out[j], out[i].c) => i = j

\* Nothing is left to say in a channel, or nothing from position n of the queue on.
Mum(s, c) == \A j \in DOMAIN s : s[j].k = "MSG" => s[j].c # c
SaidFrom(s, n, c) == \A j \in DOMAIN s : n < j /\ s[j].k = "MSG" => s[j].c # c
LastSaid ==
    \A t \in Tasks :
        /\ at[t] \in {"clear", "part"} => Mum(out, Subject(t))
        /\ at[t] = "flushing" => net = "serving" /\ \E i \in DOMAIN out :
              IsMark(out[i], t) /\ SaidFrom(out, i, Subject(t))

\* Messages are numbered in the way they are published.
Rising(s) == \A i, j \in DOMAIN s :
    i < j /\ s[i].k = "MSG" /\ s[j].k = "MSG" => s[i].v < s[j].v
Under(a, b) == \A i \in DOMAIN a, j \in DOMAIN b :
    a[i].k = "MSG" /\ b[j].k = "MSG" => a[i].v < b[j].v
UpTo(s, n) == \A i \in DOMAIN s : s[i].k = "MSG" => s[i].v \in Nat /\ s[i].v <= n
Numbered ==
    /\ Rising(got) /\ Rising(up) /\ Rising(out)
    /\ Under(got, up) /\ Under(got, out) /\ Under(up, out)
    /\ UpTo(got, said) /\ UpTo(up, said) /\ UpTo(out, said)

LinkInv == LinkTypes /\ LinkRoles /\ Marks /\ LastSaid /\ Numbered /\ LastWords

\* What the model keeps of a queue is a part of it, in way.
Rank(K, i) == Cardinality({j \in K : j <= i})
LEMMA Ranks ==
  ASSUME NEW n \in Nat, NEW K \in SUBSET (1 .. n)
  PROVE  /\ Cardinality(K) \in Nat
         /\ \A i \in K : Rank(K, i) \in 1 .. Cardinality(K)
         /\ \A i, j \in K : i < j => Rank(K, i) < Rank(K, j)
         /\ \A m \in 1 .. Cardinality(K) : \E i \in K : Rank(K, i) = m
<1> DEFINE U(i) == {j \in K : j <= i}
<1>1. IsFiniteSet(K) /\ Cardinality(K) \in Nat
  <2>1. 1 \in Int /\ n \in Int
    OBVIOUS
  <2>2. IsFiniteSet(1 .. n)
    BY <2>1, FS_Interval
  <2> QED
    BY <2>2, FS_Subset, FS_CardinalityType
<1>2. ASSUME NEW i \in K
      PROVE  /\ Rank(K, i) \in 1 .. Cardinality(K) /\ IsFiniteSet(U(i))
             /\ Cardinality(U(i)) \in Nat
  <2>1. U(i) \in SUBSET K /\ i \in U(i)
    OBVIOUS
  <2>2. IsFiniteSet(U(i)) /\ Cardinality(U(i)) <= Cardinality(K)
    BY <1>1, <2>1, FS_Subset
  <2>3. Cardinality(U(i)) \in Nat /\ Cardinality(U(i)) # 0
    BY <2>1, <2>2, FS_CardinalityType, FS_EmptySet
  <2> QED
    BY <1>1, <2>2, <2>3 DEF Rank
<1>3. ASSUME NEW i \in K, NEW j \in K, i < j
      PROVE  Rank(K, i) < Rank(K, j)
  <2>1. U(i) \in SUBSET U(j) /\ j \in U(j) /\ j \notin U(i)
    <3>1. i \in 1 .. n /\ j \in 1 .. n /\ K \subseteq 1 .. n
      OBVIOUS
    <3>2. \A k \in 1 .. n : k <= i => k <= j
      BY <1>3, <3>1
    <3>3. j <= j /\ ~(j <= i)
      BY <1>3, <3>1
    <3> QED
      BY <3>1, <3>2, <3>3
  <2>2. /\ Cardinality(U(i)) <= Cardinality(U(j))
        /\ Cardinality(U(i)) = Cardinality(U(j)) => U(j) = U(i)
    BY <1>2, <2>1, FS_Subset
  <2>3. Cardinality(U(i)) # Cardinality(U(j))
    BY <2>1, <2>2
  <2> QED
    BY <1>2, <2>2, <2>3 DEF Rank
<1>4. \A m \in 1 .. Cardinality(K) : \E i \in K : Rank(K, i) = m
  <2> DEFINE f == [i \in K |-> Rank(K, i)]
             N == 1 .. Cardinality(K)
  <2>1. \A i, j \in K : Rank(K, i) = Rank(K, j) => i = j
    <3> SUFFICES ASSUME NEW i \in K, NEW j \in K, Rank(K, i) = Rank(K, j), i # j
                 PROVE  FALSE
      OBVIOUS
    <3>1. i < j \/ j < i
      OBVIOUS
    <3>2. Rank(K, i) \in Nat /\ Rank(K, j) \in Nat
      BY <1>2 DEF Rank
    <3>3. Rank(K, i) < Rank(K, j) \/ Rank(K, j) < Rank(K, i)
      BY <1>3, <3>1
    <3> QED
      BY <3>2, <3>3
  <2>2. f \in Injection(K, N)
    BY <1>2, <2>1 DEF Injection, IsInjective
  <2>3. IsFiniteSet(N) /\ Cardinality(N) = Cardinality(K)
    BY <1>1, FS_Interval
  <2>4. f \in Surjection(K, N)
    <3> HIDE DEF f, N
    <3> QED
      BY <2>2, <2>3, FS_Injection
  <2> QED
    BY <2>4 DEF Surjection
<1> QED
  BY <1>1, <1>2, <1>3, <1>4

\* r is s without some of it.
Into(f, r, s) ==
    /\ f \in [DOMAIN r -> DOMAIN s] /\ \A m \in DOMAIN r : r[m] = s[f[m]]
    /\ \A m, n \in DOMAIN r : m < n => f[m] < f[n]
Thins(r, s) == \E f : Into(f, r, s)

LEMMA KeptPart ==
  ASSUME NEW S, NEW s \in Seq(S), NEW K \in SUBSET DOMAIN s
  PROVE  /\ Kept(s, K) \in Seq(S)
         /\ \E f : /\ Into(f, Kept(s, K), s)
                   /\ \A m \in DOMAIN Kept(s, K) : f[m] \in K
                   /\ \A i \in K : \E m \in DOMAIN Kept(s, K) : f[m] = i
<1> DEFINE r == Kept(s, K)
           f == [m \in 1 .. Cardinality(K) |-> CHOOSE i \in K : Rank(K, i) = m]
<1>1. Len(s) \in Nat /\ DOMAIN s = 1 .. Len(s) /\ K \in SUBSET (1 .. Len(s))
  OBVIOUS
<1>2. /\ Cardinality(K) \in Nat
      /\ \A i \in K : Rank(K, i) \in 1 .. Cardinality(K)
      /\ \A i, j \in K : i < j => Rank(K, i) < Rank(K, j)
      /\ \A m \in 1 .. Cardinality(K) : \E i \in K : Rank(K, i) = m
  BY <1>1, Ranks
<1>3. \A m \in 1 .. Cardinality(K) : f[m] \in K /\ Rank(K, f[m]) = m
  BY <1>2
<1>4. /\ r = [m \in 1 .. Cardinality(K) |-> r[m]]
      /\ \A m \in 1 .. Cardinality(K) : r[m] = s[f[m]]
  <2>1. r = [m \in 1 .. Cardinality(K) |-> s[CHOOSE i \in K : Rank(K, i) = m]]
    BY DEF Kept, Rank
  <2>2. \A m \in 1 .. Cardinality(K) : f[m] = (CHOOSE i \in K : Rank(K, i) = m)
    OBVIOUS
  <2> HIDE DEF f, r
  <2>3. \A m \in 1 .. Cardinality(K) : r[m] = s[CHOOSE i \in K : Rank(K, i) = m]
    BY <2>1
  <2>4. r = [m \in 1 .. Cardinality(K) |-> r[m]]
    BY <2>1
  <2> QED
    BY <2>2, <2>3, <2>4
<1>5. DOMAIN r = 1 .. Cardinality(K) /\ \A m \in DOMAIN r : r[m] = s[f[m]]
  BY <1>4
<1>6. DOMAIN f = 1 .. Cardinality(K)
  OBVIOUS
<1> HIDE DEF f, r
<1>7. r \in Seq(S)
  <2>1. \A m \in 1 .. Cardinality(K) : r[m] \in S
    BY <1>1, <1>3, <1>4
  <2> QED
    BY <1>2, <1>4, <2>1
<1>8. ASSUME NEW m \in DOMAIN r, NEW n \in DOMAIN r, m < n
      PROVE  f[m] < f[n]
  <2>1. f[m] \in K /\ f[n] \in K /\ Rank(K, f[m]) = m /\ Rank(K, f[n]) = n
    BY <1>3, <1>5
  <2>2. f[m] < f[n] \/ f[m] = f[n] \/ f[n] < f[m]
    BY <1>1, <2>1
  <2>3. m \in Nat /\ n \in Nat
    BY <1>2, <1>5
  <2> QED
    BY <1>2, <1>8, <2>1, <2>2, <2>3
<1>9. \A i \in K : \E m \in DOMAIN r : f[m] = i
  <2> SUFFICES ASSUME NEW i \in K
               PROVE  \E m \in DOMAIN r : f[m] = i
    OBVIOUS
  <2> DEFINE m == Rank(K, i)
  <2>1. m \in DOMAIN r /\ f[m] \in K /\ Rank(K, f[m]) = m
    BY <1>2, <1>3, <1>5
  <2>2. f[m] < i \/ f[m] = i \/ i < f[m]
    BY <1>1, <2>1
  <2>3. f[m] = i
    BY <1>2, <2>1, <2>2
  <2> QED
    BY <2>1, <2>3
<1>10. f \in [DOMAIN r -> DOMAIN s]
  <2>1. f = [m \in 1 .. Cardinality(K) |-> f[m]]
    BY DEF f
  <2> QED
    BY <1>1, <1>3, <1>5, <2>1
<1> QED
  <2>1. Into(f, r, s) /\ \A m \in DOMAIN r : f[m] \in K
    BY <1>3, <1>5, <1>8, <1>10 DEF Into
  <2> QED
    BY <1>7, <1>9, <2>1 DEF r

LEMMA ThinsTail ==
  ASSUME NEW S, NEW s \in Seq(S), s # << >>
  PROVE  Tail(s) \in Seq(S) /\ Thins(Tail(s), s)
<1> DEFINE f == [m \in DOMAIN Tail(s) |-> m + 1]
<1>1. /\ Tail(s) \in Seq(S) /\ Len(s) \in Nat /\ DOMAIN s = 1 .. Len(s)
      /\ DOMAIN Tail(s) = 1 .. Len(s) - 1 /\ \A m \in 1 .. Len(s) - 1 : Tail(s)[m] = s[m + 1]
  OBVIOUS
<1>2. Into(f, Tail(s), s)
  BY <1>1 DEF Into
<1> QED
  BY <1>1, <1>2 DEF Thins

LEMMA ThinsBoth ==
  ASSUME NEW q, NEW r, NEW s, Thins(q, r), Thins(r, s)
  PROVE  Thins(q, s)
<1>1. PICK f : Into(f, q, r)
  BY DEF Thins
<1>2. PICK g : Into(g, r, s)
  BY DEF Thins
<1> DEFINE h == [m \in DOMAIN q |-> g[f[m]]]
<1>3. \A m \in DOMAIN q : f[m] \in DOMAIN r /\ g[f[m]] \in DOMAIN s /\ q[m] = s[g[f[m]]]
  BY <1>1, <1>2 DEF Into
<1>4. \A m, n \in DOMAIN q : m < n => g[f[m]] < g[f[n]]
  BY <1>1, <1>2, <1>3 DEF Into
<1>5. Into(h, q, s)
  BY <1>3, <1>4 DEF Into
<1> QED
  BY <1>5 DEF Thins

\* Whatever is left out, what is left has its way and its channels.
LEMMA Thinner ==
  ASSUME NEW r, NEW s, Thins(r, s)
  PROVE  /\ Rising(s) => Rising(r)
         /\ \A a : Under(a, s) => Under(a, r)
         /\ \A n : UpTo(s, n) => UpTo(r, n)
         /\ \A c : Mum(s, c) => Mum(r, c)
<1>1. PICK f : Into(f, r, s)
  BY DEF Thins
<1>2. /\ \A m \in DOMAIN r : f[m] \in DOMAIN s /\ r[m] = s[f[m]]
      /\ \A m, n \in DOMAIN r : m < n => f[m] < f[n]
  BY <1>1 DEF Into
<1>3. Rising(s) => Rising(r)
  BY <1>2, SMTT(30) DEF Rising
<1>4. \A a : Under(a, s) => Under(a, r)
  BY <1>2 DEF Under
<1>5. \A n : UpTo(s, n) => UpTo(r, n)
  BY <1>2 DEF UpTo
<1>6. \A c : Mum(s, c) => Mum(r, c)
  BY <1>2 DEF Mum
<1> QED
  BY <1>3, <1>4, <1>5, <1>6

\* Where the steps of a task lead.
AskPcs == {"join", "private", "topic", "invite", "unset", "leave", "clear", "part",
           "rePrivate", "reTopic"}
LEMMA AskedSteps ==
  /\ DOMAIN Asks = AskPcs /\ "flushing" \notin AskPcs
  /\ \A p \in AskPcs :
        /\ Asks[p] \in {"JOIN", "MODE", "SET", "INVITE", "PART"}
        /\ Then[p] \in (LinkPcs \ {"flushing", "clear"}) \cup {"remove"}
        /\ Otherwise[p] \in (LinkPcs \ {"flushing", "clear"}) \cup {"remove"}
        /\ p \in LoopPcs => Then[p] \in LoopPcs \cup {"remove"}
        /\ p \in LoopPcs => Otherwise[p] \in LoopPcs \cup {"remove"}
        /\ Then[p] \in ClosePcs => p = "clear" /\ Then[p] = "part"
        /\ Otherwise[p] \notin ClosePcs
        /\ "idle" # p
<1>1. DOMAIN Asks = AskPcs
  BY DEF Asks, AskPcs
<1>2. \A p \in AskPcs : Asks[p] \in {"JOIN", "MODE", "SET", "INVITE", "PART"}
  BY DEF Asks, AskPcs
<1>3. \A p \in AskPcs :
        /\ Then[p] \in (LinkPcs \ {"flushing", "clear"}) \cup {"remove"}
        /\ p \in LoopPcs => Then[p] \in LoopPcs \cup {"remove"}
        /\ Then[p] \in ClosePcs => p = "clear" /\ Then[p] = "part"
  BY DEF Then, AskPcs, LinkPcs, LoopPcs, ClosePcs
<1>4. \A p \in AskPcs :
        /\ Otherwise[p] \in (LinkPcs \ {"flushing", "clear"}) \cup {"remove"}
        /\ p \in LoopPcs => Otherwise[p] \in LoopPcs \cup {"remove"}
        /\ Otherwise[p] \notin ClosePcs
  BY DEF Otherwise, AskPcs, LinkPcs, LoopPcs, ClosePcs
<1>5. "flushing" \notin AskPcs /\ "idle" \notin AskPcs
  BY DEF AskPcs
<1> QED
  BY <1>1, <1>2, <1>3, <1>4, <1>5

\* A queue of the connection that says nothing, and ends no channel.
Plain(s) == \A i \in DOMAIN s : s[i].k # "MSG" /\ ~(s[i].k = "PART" /\ s[i].v = "closed")

\* A step that publishes, writes and delivers no message keeps their numbers.
LEMMA Unsaid ==
  ASSUME Numbered, Plain(up'), UNCHANGED <<out, got, said>>
  PROVE  Numbered'
BY DEF Numbered, Plain, Rising, Under, UpTo

LEMMA PlainWords ==
  ASSUME up' \in Seq(LinkLine), Plain(up')
  PROVE  LastWords'
BY DEF Plain, LastWords

\* A step of the connection alone.
LEMMA NetStep ==
  ASSUME LinkInv, net' = net \/ net # "serving", Plain(up'),
         up' \in Seq(LinkLine), down' \in Seq(LinkLine),
         control' = control \/ (control # Nothing /\ control' \in LinkRequest
                                /\ control'.t = control.t),
         UNCHANGED <<out, got, said, at, subject, known, closing, active, created, accepted>>
  PROVE  LinkInv'
<1>1. LinkTypes'
  BY DEF LinkInv, LinkTypes
<1>2. LinkRoles'
  <2>1. control' # Nothing => control # Nothing /\ control'.t = control.t
    OBVIOUS
  <2> QED
    BY <2>1 DEF LinkInv, LinkRoles, Hushed, Subject
<1>3. Marks'
  BY DEF LinkInv, Marks, IsMark
<1>4. LastSaid'
  BY DEF LinkInv, LastSaid, Mum, SaidFrom, IsMark, Subject
<1>5. Numbered'
  BY Unsaid DEF LinkInv
<1>6. LastWords'
  BY PlainWords
<1> QED
  BY <1>1, <1>2, <1>3, <1>4, <1>5, <1>6 DEF LinkInv

\* Lines that ask for something else than to be sent on.
LEMMA LineTypes ==
  /\ \A c \in LinkNames, k \in LineKinds : Line(k, c) \in LinkLine
  /\ \A c \in LinkNames, k \in LineKinds, v \in {"none", "on", "stray", "closed"} \cup Nat :
        Valued(k, c, v) \in LinkLine
BY DEF Line, Valued, LinkLine

\* The way in which channels are joined.
LEMMA Ordered ==
  ASSUME NEW S, IsFiniteSet(S)
  PROVE  SetToSeq(S) \in Seq(S)
<1>1. PICK n \in Nat : ExistsBijection(1 .. n, S)
  BY FS_NatBijection
<1>2. Cardinality(S) = n
  BY <1>1, FS_CountingElements
<1>3. \E f \in [1 .. n -> S] : IsInjective(f)
  BY <1>1 DEF ExistsBijection, Bijection, Injection, IsInjective
<1>4. SetToSeq(S) \in [1 .. n -> S]
  BY <1>2, <1>3, Zenon DEF SetToSeq
<1> QED
  BY <1>1, <1>4

\* What is written: nothing on a connection that no longer works.
LEMMA Written ==
  ASSUME up = << >>, NEW s \in Seq(LinkLine), Write(s)
  PROVE  up' \in Seq(LinkLine) /\ (up' = s \/ up' = << >>)
BY DEF Write

LEMMA JoinsPlain ==
  ASSUME NEW c \in Channels
  PROVE  JoinLines(c) \in Seq(LinkLine) /\ Plain(JoinLines(c))
<1>1. /\ Line("JOIN", c) \in LinkLine /\ Line("ASK", c) \in LinkLine
      /\ Line("JOIN", c).k = "JOIN" /\ Line("ASK", c).k = "ASK"
  BY DEF LinkLine, LineKinds, LinkNames, Line
<1> QED
  BY <1>1 DEF JoinLines, Plain

LEMMA AllJoinsPlain ==
  ASSUME NEW way \in Seq(Channels)
  PROVE  JoinAll(way) \in Seq(LinkLine) /\ Plain(JoinAll(way))
<1> DEFINE all == JoinAll(way)
<1>1. Len(way) \in Nat /\ \A i \in 1 .. Len(way) : way[i] \in Channels
  OBVIOUS
<1>2. ASSUME NEW i \in 1 .. 2 * Len(way)
      PROVE  all[i] \in LinkLine /\ all[i].k \in {"JOIN", "ASK"}
  <2>1. (i + 1) \div 2 \in 1 .. Len(way)
    BY <1>1
  <2>2. PICK c \in Channels : c = way[(i + 1) \div 2]
    BY <1>1, <2>1
  <2>3. 2 - (i % 2) \in {1, 2}
    BY <1>1
  <2>4. all[i] = JoinLines(c)[2 - (i % 2)]
    BY <2>2 DEF JoinAll
  <2>5. /\ Line("JOIN", c) \in LinkLine /\ Line("ASK", c) \in LinkLine
        /\ Line("JOIN", c).k = "JOIN" /\ Line("ASK", c).k = "ASK"
    BY DEF LinkLine, LineKinds, LinkNames, Line
  <2>6. all[i] = Line("JOIN", c) \/ all[i] = Line("ASK", c)
    BY <2>3, <2>4 DEF JoinLines
  <2> QED
    BY <2>5, <2>6
<1>3. all = [i \in 1 .. 2 * Len(way) |-> all[i]]
  BY DEF JoinAll
<1> HIDE DEF all
<1>4. all \in Seq(LinkLine) /\ DOMAIN all = 1 .. 2 * Len(way)
  <2>1. 2 * Len(way) \in Nat
    BY <1>1
  <2> QED
    BY <1>2, <1>3, <2>1
<1>5. Plain(all)
  BY <1>2, <1>4 DEF Plain
<1> QED
  BY <1>4, <1>5 DEF all

LEMMA Connections ==
  ASSUME LinkBounds, LinkInv, up = << >>,
         \/ Connect \/ Welcome \/ Break
         \/ \E c \in Channels : Kick(c) \/ \E v \in {"on", "none"} : OwnerSets(c, v)
  PROVE  LinkInv'
<1> USE DEF irc, bridge, server
<1>1. down \in Seq(LinkLine) /\ accepted \subseteq Channels /\ Plain(<< >>)
  BY DEF LinkInv, LinkTypes, Plain
<1>2. CASE Connect
  <2>1. up' = << >> /\ down' = down /\ control' = control /\ net # "serving"
    BY <1>2 DEF Connect
  <2> QED
    BY <1>1, <1>2, <2>1, NetStep DEF Connect
<1>3. CASE Welcome
  <2>1. IsFiniteSet(accepted)
    <3>1. IsFiniteSet(Channels)
      BY DEF LinkBounds
    <3> QED
      BY <1>1, <3>1, FS_Subset
  <2>2. SetToSeq(accepted) \in Seq(Channels)
    BY <1>1, <2>1, Ordered
  <2>3. up' \in Seq(LinkLine) /\ Plain(up')
    BY <1>1, <1>3, <2>2, AllJoinsPlain, Written DEF Welcome
  <2> QED
    BY <1>1, <1>3, <2>3, NetStep DEF Welcome
<1>4. CASE Break
  <2>1. down' \in Seq(LinkLine)
    BY <1>1, <1>4 DEF Break
  <2> QED
    BY <1>1, <1>4, <2>1, NetStep DEF Break, Dropped
<1>5. ASSUME NEW c \in Channels, Kick(c)
      PROVE  LinkInv'
  <2>1. Line("KICK", c) \in LinkLine
    BY DEF LinkLine, LineKinds, LinkNames, Line
  <2>2. down' \in Seq(LinkLine)
    BY <1>1, <1>5, <2>1 DEF Kick
  <2> QED
    BY <1>1, <1>5, <2>2, NetStep DEF Kick
<1>6. ASSUME NEW c \in Channels, NEW v \in {"on", "none"}, OwnerSets(c, v)
      PROVE  LinkInv'
  <2>1. Valued("TOPIC", c, v) \in LinkLine
    BY DEF LinkLine, LineKinds, LinkNames, Valued
  <2>2. down' \in Seq(LinkLine)
    BY <1>1, <1>6, <2>1 DEF OwnerSets
  <2> QED
    BY <1>1, <1>6, <2>2, NetStep DEF OwnerSets
<1> QED
  BY <1>2, <1>3, <1>4, <1>5, <1>6

LEMMA Reads ==
  ASSUME LinkInv, up = << >>, ReadLine
  PROVE  LinkInv'
<1> USE DEF irc, bridge, server
<1> DEFINE l == Head(down)
<1>1. down \in Seq(LinkLine) /\ accepted \subseteq Channels /\ Plain(<< >>) /\ down # << >>
  BY DEF LinkInv, LinkTypes, Plain, ReadLine
<1>2. l \in LinkLine /\ down' = Tail(down) /\ down' \in Seq(LinkLine)
  BY <1>1 DEF ReadLine
<1> HIDE DEF l
<1>3. net' = net \/ net # "serving"
  BY DEF ReadLine
<1>4. CASE Awaited(l) /\ Controlled(l)
  <2>1. control # Nothing /\ up' = << >>
    BY <1>4 DEF Awaited, Controlled
  <2>2. control \in LinkRequest
    BY <2>1 DEF LinkInv, LinkTypes
  <2>3. control' \in LinkRequest /\ control'.t = control.t
    BY <1>4, <2>2 DEF Controlled, LinkRequest
  <2> QED
    BY <1>1, <1>2, <1>3, <2>1, <2>3, NetStep DEF ReadLine
<1>5. CASE Kicked(l) \/ Joined(l) \/ TopicTold(l) \/ Passed(l)
  <2>1. control' = control
    BY <1>5 DEF Kicked, Joined, TopicTold, Passed
  <2>2. CASE Kicked(l)
    <3>1. l.c \in Channels /\ Write(JoinLines(l.c))
      BY <1>1, <2>2 DEF Kicked
    <3> QED
      BY <1>1, <1>2, <1>3, <2>1, <3>1, JoinsPlain, Written, NetStep DEF ReadLine
  <2>3. CASE Joined(l)
    <3>1. Valued("PART", l.c, "stray") \in LinkLine
      BY <1>2 DEF LinkLine, LineKinds, Valued
    <3>2. Write(<< >>) \/ Write(<<Valued("PART", l.c, "stray")>>)
      BY <2>3 DEF Joined
    <3>3. Plain(<<Valued("PART", l.c, "stray")>>)
      BY DEF Plain, Valued
    <3>4. up' \in Seq(LinkLine) /\ Plain(up')
      <4> DEFINE part == <<Valued("PART", l.c, "stray")>>
      <4>1. part \in Seq(LinkLine) /\ << >> \in Seq(LinkLine) /\ Plain(part)
        BY <3>1, <3>3
      <4> HIDE DEF part
      <4>2. CASE Write(part)
        BY <1>1, <4>1, <4>2, Written
      <4>3. CASE Write(<< >>)
        BY <1>1, <4>1, <4>3, Written
      <4> QED
        BY <3>2, <4>2, <4>3 DEF part
    <3> QED
      BY <1>1, <1>2, <1>3, <2>1, <3>4, NetStep DEF ReadLine
  <2>4. CASE TopicTold(l) \/ Passed(l)
    <3>1. up' = << >>
      BY <2>4 DEF TopicTold, Passed
    <3> QED
      BY <1>1, <1>2, <1>3, <2>1, <3>1, NetStep DEF ReadLine
  <2> QED
    BY <1>5, <2>2, <2>3, <2>4
<1> QED
  BY <1>4, <1>5 DEF ReadLine, l

\* The first line of a queue, and the rest.
LEMMA Onward ==
  ASSUME NEW S, NEW s \in Seq(S), s # << >>
  PROVE  /\ Tail(s) \in Seq(S) /\ Head(s) = s[1] /\ 1 \in DOMAIN s /\ Head(s) \in S
         /\ \A i \in DOMAIN Tail(s) : i \in Nat /\ i + 1 \in DOMAIN s /\ Tail(s)[i] = s[i + 1]
         /\ \A i \in DOMAIN s : i \in Nat /\ (i = 1 \/ (i - 1 \in DOMAIN Tail(s)
                                            /\ Tail(s)[i - 1] = s[i]))
OBVIOUS

\* A queue that has a line more.
LEMMA OneMore ==
  ASSUME NEW S, NEW s \in Seq(S), NEW m \in S
  PROVE  /\ Append(s, m) \in Seq(S) /\ Len(s) \in Nat /\ Len(s) + 1 \in DOMAIN Append(s, m)
         /\ Append(s, m)[Len(s) + 1] = m
         /\ \A i \in DOMAIN s : i \in DOMAIN Append(s, m) /\ Append(s, m)[i] = s[i]
         /\ \A i \in DOMAIN s : i \in Nat /\ i < Len(s) + 1
         /\ \A i \in DOMAIN Append(s, m) : i = Len(s) + 1 \/ i \in DOMAIN s
OBVIOUS

LEMMA Speaks ==
  ASSUME LinkBounds, LinkInv, up = << >>, NEW c \in Channels, Say(c)
  PROVE  LinkInv'
<1> USE DEF irc, bridge, server
<1> DEFINE m == Valued("MSG", c, said + 1)
<1>1. /\ out \in Seq(LinkLine) /\ said \in Nat /\ out' = Append(out, m) /\ said' = said + 1
      /\ UNCHANGED <<net, at, control, known, closing, active, subject, created, up, got>>
      /\ UNCHANGED <<down, accepted>>
  BY DEF LinkInv, LinkTypes, Say
<1>2. m \in LinkLine /\ m.k = "MSG" /\ m.c = c /\ m.v = said + 1
  BY <1>1 DEF LinkLine, LineKinds, LinkNames, Valued
<1> HIDE DEF m
<1>3. /\ out' \in Seq(LinkLine) /\ Len(out) \in Nat /\ Len(out) + 1 \in DOMAIN out'
      /\ out'[Len(out) + 1] = m
      /\ \A i \in DOMAIN out : i \in DOMAIN out' /\ out'[i] = out[i]
      /\ \A i \in DOMAIN out : i \in Nat /\ i < Len(out) + 1
      /\ \A i \in DOMAIN out' : i = Len(out) + 1 \/ i \in DOMAIN out
  BY <1>1, <1>2, OneMore
<1>4. LinkTypes'
  BY <1>1, <1>3 DEF LinkInv, LinkTypes
<1>5. LinkRoles'
  BY <1>1 DEF LinkInv, LinkRoles, Hushed, Subject
<1>6. Marks'
  <2>1. \A i \in DOMAIN out' : out'[i].k = "FLUSH" => i \in DOMAIN out /\ out'[i] = out[i]
    BY <1>2, <1>3
  <2> QED
    BY <1>1, <2>1 DEF LinkInv, Marks, IsMark
<1>7. \A t \in Tasks : at[t] \in ClosePcs => Subject(t) # c
  <2> SUFFICES ASSUME NEW t \in Tasks, at[t] \in ClosePcs, Subject(t) = c
               PROVE  FALSE
    OBVIOUS
  <2>1. c \in created /\ (c \in closing \/ c \notin known) /\ created \subseteq Managed
    BY DEF LinkInv, LinkRoles, Hushed
  <2>2. c \in active /\ c \notin closing /\ active \subseteq known \cup Static
    BY DEF LinkInv, LinkRoles, Say
  <2> QED
    BY <2>1, <2>2 DEF LinkBounds
<1>8. LastSaid'
  <2>1. Tasks' = Tasks /\ \A t : Subject(t)' = Subject(t)
    BY <1>1 DEF Subject
  <2>2. ASSUME NEW t \in Tasks, at[t] \in {"clear", "part"}
        PROVE  Mum(out', Subject(t))
    <3>1. at[t] \in ClosePcs /\ Mum(out, Subject(t))
      BY <2>2 DEF LinkInv, LastSaid, ClosePcs
    <3> QED
      BY <1>2, <1>3, <1>7, <3>1 DEF Mum
  <2>3. ASSUME NEW t \in Tasks, at[t] = "flushing"
        PROVE  net = "serving" /\ \E i \in DOMAIN out' :
                  IsMark(out'[i], t) /\ SaidFrom(out', i, Subject(t))
    <3>1. at[t] \in ClosePcs
      BY <2>3 DEF ClosePcs
    <3>2. net = "serving" /\ \E i \in DOMAIN out :
                  IsMark(out[i], t) /\ SaidFrom(out, i, Subject(t))
      BY <2>3 DEF LinkInv, LastSaid
    <3> QED
      BY <1>2, <1>3, <1>7, <3>1, <3>2 DEF SaidFrom
  <2> QED
    BY <1>1, <2>1, <2>2, <2>3 DEF LastSaid
<1>9. Numbered'
  <2>1. /\ Rising(got) /\ Rising(out) /\ Under(got, out)
        /\ UpTo(got, said) /\ UpTo(out, said)
    BY DEF LinkInv, Numbered
  <2>2. Rising(out')
    BY <1>1, <1>2, <1>3, <2>1 DEF Rising, UpTo
  <2>3. Under(got, out')
    BY <1>1, <1>2, <1>3, <2>1 DEF Under, UpTo
  <2>4. UpTo(got, said + 1)
    BY <1>1, <2>1 DEF UpTo
  <2>5. UpTo(out', said + 1)
    BY <1>1, <1>2, <1>3, <2>1 DEF UpTo
  <2>6. Rising(up') /\ Under(got, up') /\ Under(up', out') /\ UpTo(up', said + 1)
    BY <1>1 DEF Rising, Under, UpTo
  <2> QED
    BY <1>1, <2>1, <2>2, <2>3, <2>4, <2>5, <2>6 DEF Numbered
<1>10. LastWords'
  BY <1>1 DEF LastWords
<1> QED
  BY <1>4, <1>5, <1>6, <1>8, <1>9, <1>10 DEF LinkInv

\* The server takes a line, and may answer.
LEMMA Replies ==
  ASSUME LinkInv, ServerTakes
  PROVE  /\ up' = Tail(up) /\ down' \in Seq(LinkLine)
         /\ got' = got \/ (Head(up).k = "MSG" /\ got' = Append(got, Head(up)))
<1> USE DEF irc, bridge, server
<1> DEFINE c == Head(up).c
<1>1. up \in Seq(LinkLine) /\ down \in Seq(LinkLine) /\ up # << >>
  BY DEF LinkInv, LinkTypes, ServerTakes
<1>2. Head(up) \in LinkLine /\ c \in LinkNames
  <2>1. Head(up) \in LinkLine
    BY <1>1, Onward
  <2> QED
    BY <2>1 DEF LinkLine
<1>3. /\ \A k \in LineKinds : Line(k, c) \in LinkLine
      /\ \A v \in {"none", "on", "stray", "closed"} \cup Nat :
            Valued("SET", c, v) \in LinkLine /\ Valued("332", c, v) \in LinkLine
  BY <1>2 DEF LinkLine, LineKinds, Line, Valued
<1>4. \A lines \in Seq(LinkLine) : Reply(lines) => up' = Tail(up) /\ down' \in Seq(LinkLine)
  BY <1>1 DEF Reply
<1> HIDE DEF c
<1>5. \A k \in LineKinds : <<Line(k, c)>> \in Seq(LinkLine)
  BY <1>3
<1>6. /\ << >> \in Seq(LinkLine)
      /\ {"JOIN", "473", "442", "324", "341", "331", "PART"} \subseteq LineKinds
  BY DEF LineKinds
<1>7. CASE TakeJoin(c)
  <2>1. PICK rest \in {<< >>, <<Valued("332", c, "on")>>} :
           \/ Reply(<< >>) \/ Reply(<<Line("473", c)>>)
           \/ Reply(<<Line("JOIN", c)>> \o rest)
    BY <1>7 DEF TakeJoin
  <2>2. rest \in Seq(LinkLine)
    <3>1. Valued("332", c, "on") \in LinkLine
      BY <1>3
    <3>2. <<Valued("332", c, "on")>> \in Seq(LinkLine)
      BY <3>1
    <3> QED
      BY <1>6, <3>2
  <2>3. /\ <<Line("JOIN", c)>> \o rest \in Seq(LinkLine)
        /\ <<Line("473", c)>> \in Seq(LinkLine)
    BY <1>5, <1>6, <2>2
  <2>4. up' = Tail(up) /\ down' \in Seq(LinkLine)
    BY <1>4, <1>6, <2>1, <2>3
  <2> QED
    BY <1>7, <2>4 DEF TakeJoin
<1>8. CASE TakeFromOutside(c)
  <2>1. up' = Tail(up) /\ down' \in Seq(LinkLine)
    BY <1>4, <1>5, <1>6, <1>8 DEF TakeFromOutside
  <2> QED
    BY <1>8, <2>1 DEF TakeFromOutside
<1>9. CASE TakeQuery(c)
  <2>1. \/ Reply(<<Line("324", c)>>) \/ Reply(<<Line("341", c)>>)
        \/ Reply(<<Line("331", c)>>) \/ Reply(<<Valued("332", c, "on")>>)
    BY <1>9 DEF TakeQuery
  <2>2. <<Valued("332", c, "on")>> \in Seq(LinkLine)
    BY <1>3
  <2>3. up' = Tail(up) /\ down' \in Seq(LinkLine)
    BY <1>4, <1>5, <1>6, <2>1, <2>2
  <2> QED
    BY <1>9, <2>3 DEF TakeQuery
<1>10. CASE TakeSet(c)
  <2>1. Head(up).v \in {"none", "on", "stray", "closed"} \cup Nat
    BY <1>2 DEF LinkLine
  <2>2. <<Valued("SET", c, Head(up).v)>> \in Seq(LinkLine)
    <3>1. Valued("SET", c, Head(up).v) \in LinkLine
      BY <1>3, <2>1
    <3> QED
      BY <3>1
  <2>3. up' = Tail(up) /\ down' \in Seq(LinkLine)
    BY <1>4, <1>10, <2>2 DEF TakeSet
  <2> QED
    BY <1>10, <2>3 DEF TakeSet
<1>11. CASE TakePart(c)
  <2>1. up' = Tail(up) /\ down' \in Seq(LinkLine)
    BY <1>4, <1>5, <1>6, <1>11 DEF TakePart
  <2> QED
    BY <1>11, <2>1 DEF TakePart
<1>12. CASE TakeMessage(c)
  BY <1>4, <1>6, <1>12 DEF TakeMessage
<1> QED
  BY <1>7, <1>8, <1>9, <1>10, <1>11, <1>12 DEF ServerTakes, c

LEMMA Serves ==
  ASSUME LinkInv, ServerTakes
  PROVE  LinkInv'
<1> USE DEF irc, bridge, server
<1>1. /\ up' = Tail(up) /\ down' \in Seq(LinkLine)
      /\ got' = got \/ (Head(up).k = "MSG" /\ got' = Append(got, Head(up)))
  BY Replies
<1>2. UNCHANGED <<net, at, control, known, closing, active, subject, created, out, said, accepted>>
  BY DEF ServerTakes
<1>3. up \in Seq(LinkLine) /\ up # << >> /\ got \in Seq(LinkLine) /\ said \in Nat
  BY DEF LinkInv, LinkTypes, ServerTakes
<1>4. /\ Tail(up) \in Seq(LinkLine) /\ Head(up) = up[1] /\ 1 \in DOMAIN up /\ Head(up) \in LinkLine
      /\ \A i \in DOMAIN Tail(up) : i \in Nat /\ i + 1 \in DOMAIN up /\ Tail(up)[i] = up[i + 1]
  BY <1>3, Onward
<1>5. \A i \in DOMAIN Tail(up) : 1 < i + 1
  <2>1. \A i \in DOMAIN Tail(up) : i \in Nat /\ 1 <= i
    BY <1>4
  <2> QED
    BY <2>1
<1>6. got' \in Seq(LinkLine)
  <2>1. Append(got, Head(up)) \in Seq(LinkLine)
    BY <1>3, <1>4
  <2> QED
    BY <1>1, <1>3, <2>1
<1>7. LinkTypes'
  BY <1>1, <1>2, <1>4, <1>6 DEF LinkInv, LinkTypes
<1>8. LinkRoles'
  BY <1>2 DEF LinkInv, LinkRoles, Hushed, Subject
<1>9. Marks'
  BY <1>2 DEF LinkInv, Marks, IsMark
<1>10. LastSaid'
  BY <1>2 DEF LinkInv, LastSaid, Mum, SaidFrom, IsMark, Subject
<1>11. Numbered'
  <2>1. /\ Rising(got) /\ Rising(up) /\ Rising(out)
        /\ Under(got, up) /\ Under(got, out) /\ Under(up, out)
        /\ UpTo(got, said) /\ UpTo(up, said) /\ UpTo(out, said)
    BY DEF LinkInv, Numbered
  <2>2. Thins(Tail(up), up)
    BY <1>3, ThinsTail
  <2>3. /\ Rising(Tail(up)) /\ Under(got, Tail(up)) /\ UpTo(Tail(up), said)
    BY <2>1, <2>2, Thinner
  <2>4. Under(Tail(up), out)
    BY <1>4, <2>1 DEF Under
  <2>5. CASE got' = got
    BY <1>1, <1>2, <2>1, <2>3, <2>4, <2>5 DEF Numbered
  <2>6. CASE Head(up).k = "MSG" /\ got' = Append(got, Head(up))
    <3>1. /\ Len(got) + 1 \in DOMAIN got' /\ got'[Len(got) + 1] = Head(up)
          /\ \A i \in DOMAIN got : i \in DOMAIN got' /\ got'[i] = got[i]
          /\ \A i \in DOMAIN got : i \in Nat /\ i < Len(got) + 1
          /\ \A i \in DOMAIN got' : i = Len(got) + 1 \/ i \in DOMAIN got
          /\ Len(got) \in Nat
      BY <1>3, <1>4, <2>6, OneMore
    <3>2. Rising(got')
      BY <1>4, <2>1, <2>6, <3>1 DEF Rising, Under
    <3>3. Under(got', Tail(up))
      <4>1. \A j \in DOMAIN Tail(up) : Tail(up)[j].k = "MSG" => up[1].v < Tail(up)[j].v
        BY <1>4, <1>5, <2>1, <2>6 DEF Rising
      <4> QED
        BY <1>4, <2>3, <2>6, <3>1, <4>1 DEF Under
    <3>4. Under(got', out)
      BY <1>4, <2>1, <2>6, <3>1 DEF Under
    <3>5. UpTo(got', said)
      BY <1>4, <2>1, <2>6, <3>1 DEF UpTo
    <3> QED
      BY <1>1, <1>2, <2>1, <2>3, <2>4, <3>2, <3>3, <3>4, <3>5 DEF Numbered
  <2> QED
    BY <1>1, <2>5, <2>6
<1>12. LastWords'
  <2>1. LastWords
    BY DEF LinkInv
  <2>2. \A i \in 1 .. Len(up') : i + 1 \in 1 .. Len(up) /\ up'[i] = up[i + 1]
    BY <1>1, <1>3
  <2> QED
    BY <1>2, <2>1, <2>2 DEF LastWords
<1> QED
  BY <1>7, <1>8, <1>9, <1>10, <1>11, <1>12 DEF LinkInv

LEMMA Writes ==
  ASSUME LinkInv, up = << >>, WriteMessage
  PROVE  LinkInv'
<1> USE DEF irc, bridge, server
<1>1. /\ out \in Seq(LinkLine) /\ out # << >> /\ Head(out).k = "MSG" /\ out' = Tail(out)
      /\ UNCHANGED <<net, at, control, known, closing, active, subject, created, said, got>>
      /\ UNCHANGED <<down, accepted>> /\ Write(<<Head(out)>>)
  BY DEF LinkInv, LinkTypes, WriteMessage, Reached
<1>2. /\ Tail(out) \in Seq(LinkLine) /\ Head(out) = out[1] /\ 1 \in DOMAIN out
      /\ Head(out) \in LinkLine
      /\ \A i \in DOMAIN Tail(out) : i \in Nat /\ i + 1 \in DOMAIN out /\ Tail(out)[i] = out[i + 1]
      /\ \A i \in DOMAIN out : i \in Nat /\ (i = 1 \/ (i - 1 \in DOMAIN Tail(out)
                                            /\ Tail(out)[i - 1] = out[i]))
  BY <1>1, Onward
<1>3. <<Head(out)>> \in Seq(LinkLine)
  BY <1>2
<1>4. up' \in Seq(LinkLine) /\ (up' = <<Head(out)>> \/ up' = << >>)
  BY <1>1, <1>3, Written
<1>5. LinkTypes'
  BY <1>1, <1>2, <1>4 DEF LinkInv, LinkTypes
<1>6. LinkRoles'
  BY <1>1 DEF LinkInv, LinkRoles, Hushed, Subject
<1>7. Marks'
  <2>1. /\ \A i \in DOMAIN out : out[i].k = "FLUSH" =>
              out[i].c \in Tasks /\ at[out[i].c] = "flushing"
        /\ \A i, j \in DOMAIN out : out[i].k = "FLUSH" /\ IsMark(out[j], out[i].c) => i = j
    BY DEF LinkInv, Marks
  <2>2. ASSUME NEW i \in DOMAIN out', NEW j \in DOMAIN out', out'[i].k = "FLUSH",
               IsMark(out'[j], out'[i].c)
        PROVE  i = j
    <3>1. /\ i \in Nat /\ j \in Nat /\ i + 1 \in DOMAIN out /\ j + 1 \in DOMAIN out
          /\ out'[i] = out[i + 1] /\ out'[j] = out[j + 1]
      BY <1>1, <1>2
    <3>2. i + 1 = j + 1
      BY <2>1, <2>2, <3>1
    <3> QED
      BY <3>1, <3>2
  <2>3. \A i \in DOMAIN out' : out'[i].k = "FLUSH" =>
              out'[i].c \in Tasks /\ at[out'[i].c] = "flushing"
    BY <1>1, <1>2, <2>1
  <2> QED
    BY <1>1, <2>2, <2>3 DEF Marks
<1>8. LastSaid'
  <2>1. \A t : Subject(t)' = Subject(t)
    BY <1>1 DEF Subject
  <2>2. ASSUME NEW t \in Tasks, at[t] \in {"clear", "part"}
        PROVE  Mum(out', Subject(t))
    <3>1. Mum(out, Subject(t))
      BY <2>2 DEF LinkInv, LastSaid
    <3> QED
      BY <1>1, <1>2, <3>1 DEF Mum
  <2>3. ASSUME NEW t \in Tasks, at[t] = "flushing"
        PROVE  net = "serving" /\ \E i \in DOMAIN out' :
                  IsMark(out'[i], t) /\ SaidFrom(out', i, Subject(t))
    <3>1. PICK i \in DOMAIN out : IsMark(out[i], t) /\ SaidFrom(out, i, Subject(t))
      BY <2>3 DEF LinkInv, LastSaid
    <3>2. i # 1
      BY <1>1, <1>2, <3>1 DEF IsMark
    <3>3. i \in Nat /\ i - 1 \in DOMAIN out' /\ out'[i - 1] = out[i]
      BY <1>1, <1>2, <3>2
    <3>4. SaidFrom(out', i - 1, Subject(t))
      BY <1>1, <1>2, <3>1, <3>3 DEF SaidFrom
    <3> QED
      BY <2>3, <3>1, <3>3, <3>4 DEF LinkInv, LastSaid
  <2> QED
    BY <1>1, <2>1, <2>2, <2>3 DEF LastSaid
<1>9. Numbered'
  <2>1. /\ Rising(got) /\ Rising(out) /\ Under(got, out) /\ UpTo(got, said) /\ UpTo(out, said)
    BY DEF LinkInv, Numbered
  <2>2. Thins(Tail(out), out)
    BY <1>1, ThinsTail
  <2>3. /\ Rising(Tail(out)) /\ Under(got, Tail(out)) /\ UpTo(Tail(out), said)
    BY <2>1, <2>2, Thinner
  <2>4. \A i \in DOMAIN up' : i = 1 /\ up'[i] = out[1]
    BY <1>2, <1>4
  <2>5. Rising(up')
    BY <2>4 DEF Rising
  <2>6. Under(got, up') /\ UpTo(up', said)
    BY <1>2, <2>1, <2>4 DEF Under, UpTo
  <2>7. Under(up', Tail(out))
    <3>1. \A j \in DOMAIN Tail(out) : Tail(out)[j].k = "MSG" => out[1].v < Tail(out)[j].v
      <4>1. \A j \in DOMAIN Tail(out) : j \in Nat /\ 1 <= j
        BY <1>2
      <4>2. \A j \in DOMAIN Tail(out) : 1 < j + 1
        BY <4>1
      <4> QED
        BY <1>1, <1>2, <2>1, <4>2 DEF Rising
    <3> QED
      BY <2>4, <3>1 DEF Under
  <2> QED
    BY <1>1, <2>1, <2>3, <2>5, <2>6, <2>7 DEF Numbered
<1>10. LastWords'
  <2>1. \A i \in 1 .. Len(up') : up'[i].k = "MSG"
    BY <1>1, <1>4
  <2> QED
    BY <2>1 DEF LastWords
<1> QED
  BY <1>5, <1>6, <1>7, <1>8, <1>9, <1>10 DEF LinkInv

LEMMA Flushes ==
  ASSUME LinkInv, up = << >>, Flushed
  PROVE  LinkInv'
<1> USE DEF irc, bridge, server
<1> DEFINE u == Head(out).c
<1>1. /\ out \in Seq(LinkLine) /\ out # << >> /\ Head(out).k = "FLUSH" /\ out' = Tail(out)
      /\ at' = [at EXCEPT ![u] = "clear"]
      /\ UNCHANGED <<net, control, known, closing, active, subject, created, said, got>>
      /\ UNCHANGED <<up, down, accepted>>
  BY DEF LinkInv, LinkTypes, Flushed, Reached
<1>2. /\ Tail(out) \in Seq(LinkLine) /\ Head(out) = out[1] /\ 1 \in DOMAIN out
      /\ \A i \in DOMAIN Tail(out) : i \in Nat /\ i + 1 \in DOMAIN out /\ Tail(out)[i] = out[i + 1]
      /\ \A i \in DOMAIN out : i \in Nat /\ (i = 1 \/ (i - 1 \in DOMAIN Tail(out)
                                            /\ Tail(out)[i - 1] = out[i]))
  BY <1>1, Onward
<1>3. /\ \A i \in DOMAIN out : out[i].k = "FLUSH" =>
            out[i].c \in Tasks /\ at[out[i].c] = "flushing"
      /\ \A i, j \in DOMAIN out : out[i].k = "FLUSH" /\ IsMark(out[j], out[i].c) => i = j
  BY DEF LinkInv, Marks
<1>4. u \in Tasks /\ at[u] = "flushing" /\ IsMark(out[1], u)
  BY <1>1, <1>2, <1>3 DEF IsMark
<1>5. at \in [Tasks -> LinkPcs] /\ at["loop"] \in LoopPcs
  BY DEF LinkInv, LinkTypes
<1> HIDE DEF u
<1>6. /\ at'[u] = "clear" /\ at' \in [Tasks -> LinkPcs] /\ at'["loop"] \in LoopPcs
      /\ \A t \in Tasks : t # u => at'[t] = at[t]
  <2>1. "clear" \in LoopPcs /\ "clear" \in LinkPcs
    BY DEF LinkPcs, LoopPcs, ClosePcs
  <2> QED
    BY <1>1, <1>4, <1>5, <2>1 DEF Tasks
<1>7. LinkTypes'
  BY <1>1, <1>2, <1>6 DEF LinkInv, LinkTypes
<1>8. LinkRoles'
  <2>1. /\ known \subseteq created /\ created \subseteq Managed
        /\ active \subseteq known \cup Static
        /\ \A t \in Managed : at[t] # "idle" => t \in created
        /\ control # Nothing => at[control.t] \in DOMAIN Asks
        /\ \A t \in Tasks : at[t] \in ClosePcs => Hushed(Subject(t))
    BY DEF LinkInv, LinkRoles
  <2>2. \A t : Hushed(t)' = Hushed(t) /\ Subject(t)' = Subject(t)
    BY <1>1 DEF Hushed, Subject
  <2>3. \A t \in Managed : at'[t] # "idle" => t \in created
    BY <1>4, <1>6, <2>1 DEF Tasks
  <2>4. control # Nothing => at'[control.t] \in DOMAIN Asks
    <3>1. control # Nothing => control.t \in Tasks /\ control.t # u
      BY <1>4, <2>1, AskedSteps DEF LinkInv, LinkTypes, LinkRequest
    <3> QED
      BY <1>6, <2>1, <3>1
  <2>5. \A t \in Tasks : at'[t] \in ClosePcs => Hushed(Subject(t))
    BY <1>4, <1>6, <2>1 DEF ClosePcs
  <2>6. (\A t \in Tasks : at[t] \in ClosePcs => Hushed(Subject(t)))'
    <3>1. \A t : Hushed(Subject(t))' = Hushed(Subject(t))
      BY <1>1 DEF Hushed, Subject
    <3> QED
      BY <2>5, <3>1
  <2> QED
    BY <1>1, <2>1, <2>3, <2>4, <2>6 DEF LinkRoles
<1>9. Marks'
  <2>2. ASSUME NEW i \in DOMAIN out', NEW j \in DOMAIN out', out'[i].k = "FLUSH",
               IsMark(out'[j], out'[i].c)
        PROVE  i = j
    <3>1. /\ i \in Nat /\ j \in Nat /\ i + 1 \in DOMAIN out /\ j + 1 \in DOMAIN out
          /\ out'[i] = out[i + 1] /\ out'[j] = out[j + 1]
      BY <1>1, <1>2
    <3>2. i + 1 = j + 1
      BY <1>3, <2>2, <3>1
    <3> QED
      BY <3>1, <3>2
  <2>3. ASSUME NEW i \in DOMAIN out', out'[i].k = "FLUSH"
        PROVE  out'[i].c \in Tasks /\ at'[out'[i].c] = "flushing"
    <3>1. i \in Nat /\ i + 1 \in DOMAIN out /\ out'[i] = out[i + 1] /\ 1 <= i
      BY <1>1, <1>2
    <3>2. out'[i].c \in Tasks /\ at[out'[i].c] = "flushing"
      BY <1>3, <2>3, <3>1
    <3>3. out'[i].c # u
      <4>1. out'[i].c = u => i + 1 = 1
        BY <1>3, <1>4, <2>3, <3>1 DEF IsMark
      <4> QED
        BY <3>1, <4>1
    <3> QED
      BY <1>6, <3>2, <3>3
  <2> QED
    BY <1>1, <2>2, <2>3 DEF Marks
<1>10. LastSaid'
  <2>1. \A t : Subject(t)' = Subject(t)
    BY <1>1 DEF Subject
  <2>2. \A t \in Tasks :
          /\ at[t] \in {"clear", "part"} => Mum(out, Subject(t))
          /\ at[t] = "flushing" => net = "serving" /\ \E i \in DOMAIN out :
                IsMark(out[i], t) /\ SaidFrom(out, i, Subject(t))
    BY DEF LinkInv, LastSaid
  <2>3. \A c : Mum(out, c) => Mum(out', c)
    BY <1>1, <1>2 DEF Mum
  <2>4. Mum(out', Subject(u))
    <3>1. PICK i \in DOMAIN out : IsMark(out[i], u) /\ SaidFrom(out, i, Subject(u))
      BY <1>4, <2>2
    <3>2. i = 1
      BY <1>2, <1>3, <1>4, <3>1 DEF IsMark
    <3>3. \A j \in DOMAIN out' : 1 < j + 1
      <4>1. \A j \in DOMAIN out' : j \in Nat /\ 1 <= j
        BY <1>1, <1>2
      <4> QED
        BY <4>1
    <3> QED
      BY <1>1, <1>2, <3>1, <3>2, <3>3 DEF SaidFrom, Mum
  <2>5. ASSUME NEW t \in Tasks, at'[t] \in {"clear", "part"}
        PROVE  Mum(out', Subject(t))
    BY <1>6, <2>2, <2>3, <2>4, <2>5
  <2>6. ASSUME NEW t \in Tasks, at'[t] = "flushing"
        PROVE  net = "serving" /\ \E i \in DOMAIN out' :
                  IsMark(out'[i], t) /\ SaidFrom(out', i, Subject(t))
    <3>1. t # u /\ at[t] = "flushing"
      BY <1>6, <2>6
    <3>2. PICK i \in DOMAIN out : IsMark(out[i], t) /\ SaidFrom(out, i, Subject(t))
      BY <2>2, <3>1
    <3>3. i # 1
      BY <1>4, <3>1, <3>2 DEF IsMark
    <3>4. i \in Nat /\ i - 1 \in DOMAIN out' /\ out'[i - 1] = out[i]
      BY <1>1, <1>2, <3>3
    <3>5. SaidFrom(out', i - 1, Subject(t))
      BY <1>1, <1>2, <3>2, <3>4 DEF SaidFrom
    <3> QED
      BY <2>2, <3>1, <3>2, <3>4, <3>5
  <2> QED
    BY <1>1, <2>1, <2>5, <2>6 DEF LastSaid
<1>11. Numbered'
  <2>1. /\ Rising(got) /\ Rising(out) /\ Under(got, out) /\ UpTo(got, said) /\ UpTo(out, said)
    BY DEF LinkInv, Numbered
  <2>2. Thins(Tail(out), out)
    BY <1>1, ThinsTail
  <2>3. /\ Rising(Tail(out)) /\ Under(got, Tail(out)) /\ UpTo(Tail(out), said)
    BY <2>1, <2>2, Thinner
  <2>4. Rising(up) /\ Under(got, up) /\ Under(up, Tail(out)) /\ UpTo(up, said)
    BY DEF Rising, Under, UpTo
  <2> QED
    BY <1>1, <2>1, <2>3, <2>4 DEF Numbered
<1>12. LastWords'
  BY <1>1 DEF LastWords
<1> QED
  BY <1>7, <1>8, <1>9, <1>10, <1>11, <1>12 DEF LinkInv

\* The connection is lost: whoever waited for the queue no longer does.
LEMMA Losses ==
  ASSUME LinkInv, up = << >>, NEW rest, rest \in Seq(LinkLine), Thins(rest, out),
         Lost(rest)
  PROVE  LinkInv'
<1> USE DEF irc, bridge, server
<1> DEFINE K == {i \in DOMAIN rest : rest[i].k # "FLUSH" \/ ~FlushFails(rest[i].c)}
<1>1. /\ net' = "down" /\ out' = Kept(rest, K)
      /\ at' = [t \in Tasks |-> IF FlushFails(t) THEN "idle" ELSE at[t]]
      /\ subject' = IF FlushFails("loop") THEN Nothing ELSE subject
      /\ control' = IF control # Nothing /\ control.st = "sent"
                    THEN [control EXCEPT !.st = "failed"] ELSE control
      /\ down' = << >> /\ up' = << >>
      /\ UNCHANGED <<accepted, known, closing, active, created, got, said>>
  BY DEF Lost, Dropped
<1>2. K \in SUBSET DOMAIN rest
  OBVIOUS
<1> HIDE DEF K
<1>3. /\ out' \in Seq(LinkLine)
      /\ \E f : /\ Into(f, out', rest) /\ \A m \in DOMAIN out' : f[m] \in K
                /\ \A i \in K : \E m \in DOMAIN out' : f[m] = i
  BY <1>1, <1>2, KeptPart
<1>4. PICK f : Into(f, out', rest) /\ \A m \in DOMAIN out' : f[m] \in K
  BY <1>3
<1>5. Thins(out', rest) /\ Thins(out', out)
  <2>1. Thins(out', rest)
    BY <1>4 DEF Thins
  <2> QED
    BY <2>1, ThinsBoth
<1>6. at \in [Tasks -> LinkPcs] /\ at["loop"] \in LoopPcs
  BY DEF LinkInv, LinkTypes
<1>7. /\ at' \in [Tasks -> LinkPcs] /\ at'["loop"] \in LoopPcs
      /\ \A t \in Tasks : at'[t] # "flushing"
      /\ \A t \in Tasks : at'[t] = at[t] \/ (at[t] = "flushing" /\ at'[t] = "idle")
  <2>1. "idle" \in LinkPcs /\ "idle" \in LoopPcs /\ "loop" \in Tasks
    BY DEF LinkPcs, LoopPcs, Tasks
  <2> QED
    BY <1>1, <1>6, <2>1 DEF FlushFails
<1>8. control' = Nothing \/ control' \in LinkRequest
  BY <1>1 DEF LinkInv, LinkTypes, LinkRequest
<1>9. control' # Nothing => control # Nothing /\ control'.t = control.t
  <2>1. control = Nothing \/ control \in LinkRequest
    BY DEF LinkInv, LinkTypes
  <2> QED
    BY <1>1, <2>1 DEF LinkRequest
<1>10. LinkTypes'
  <2>1. << >> \in Seq(LinkLine)
    OBVIOUS
  <2> QED
    BY <1>1, <1>3, <1>7, <1>8, <2>1 DEF LinkInv, LinkTypes
<1>11. \A t \in Tasks : at'[t] # "idle" => at'[t] = at[t] /\ Subject(t)' = Subject(t)
  BY <1>1, <1>7 DEF Subject, FlushFails
<1>12. LinkRoles'
  <2>1. /\ known \subseteq created /\ created \subseteq Managed
        /\ active \subseteq known \cup Static
        /\ \A t \in Managed : at[t] # "idle" => t \in created
        /\ control # Nothing => at[control.t] \in DOMAIN Asks
        /\ \A t \in Tasks : at[t] \in ClosePcs => Hushed(Subject(t))
    BY DEF LinkInv, LinkRoles
  <2>2. \A c : Hushed(c)' = Hushed(c)
    BY <1>1 DEF Hushed
  <2>3. \A t \in Managed : at'[t] # "idle" => t \in created
    BY <1>7, <2>1 DEF Tasks
  <2>4. control' # Nothing => at'[control'.t] \in DOMAIN Asks
    <3>1. control # Nothing => control.t \in Tasks
      BY DEF LinkInv, LinkTypes, LinkRequest
    <3> QED
      BY <1>7, <1>9, <2>1, <3>1, AskedSteps
  <2>5. (\A t \in Tasks : at[t] \in ClosePcs => Hushed(Subject(t)))'
    <3> SUFFICES ASSUME NEW t \in Tasks, at'[t] \in ClosePcs
                 PROVE  Hushed(Subject(t))'
      OBVIOUS
    <3>1. at'[t] = at[t] /\ Subject(t)' = Subject(t)
      BY <1>11 DEF ClosePcs
    <3>2. Hushed(Subject(t))
      BY <2>1, <3>1
    <3> QED
      BY <1>1, <3>1, <3>2 DEF Hushed
  <2> QED
    BY <1>1, <2>1, <2>3, <2>4, <2>5 DEF LinkRoles
<1>13. Marks'
  <2>1. \A i \in DOMAIN out' : out'[i].k # "FLUSH"
    <3> SUFFICES ASSUME NEW i \in DOMAIN out', out'[i].k = "FLUSH"
                 PROVE  FALSE
      OBVIOUS
    <3>1. f[i] \in DOMAIN rest /\ f[i] \in K /\ out'[i] = rest[f[i]]
      BY <1>4 DEF Into
    <3>2. ~FlushFails(out'[i].c)
      BY <3>1 DEF K
    <3>3. PICK g : Into(g, rest, out)
      BY DEF Thins
    <3>4. g[f[i]] \in DOMAIN out /\ out'[i] = out[g[f[i]]]
      BY <3>1, <3>3 DEF Into
    <3> QED
      BY <3>2, <3>4 DEF LinkInv, Marks, FlushFails
  <2> QED
    BY <2>1 DEF Marks
<1>14. LastSaid'
  <2>1. ASSUME NEW t \in Tasks, at'[t] \in {"clear", "part"}
        PROVE  Mum(out', Subject(t)')
    <3>1. at'[t] = at[t] /\ Subject(t)' = Subject(t)
      BY <1>11, <2>1
    <3>2. Mum(out, Subject(t))
      BY <2>1, <3>1 DEF LinkInv, LastSaid
    <3> QED
      BY <1>5, <3>1, <3>2, Thinner
  <2> QED
    BY <1>7, <2>1 DEF LastSaid, Mum
<1>15. Numbered'
  <2>1. /\ Rising(got) /\ Rising(out) /\ Under(got, out) /\ UpTo(got, said) /\ UpTo(out, said)
    BY DEF LinkInv, Numbered
  <2>2. /\ Rising(out') /\ Under(got, out') /\ UpTo(out', said)
    BY <1>5, <2>1, Thinner
  <2>3. Rising(up') /\ Under(got, up') /\ Under(up', out') /\ UpTo(up', said)
    BY <1>1 DEF Rising, Under, UpTo
  <2> QED
    BY <1>1, <2>1, <2>2, <2>3 DEF Numbered
<1>16. LastWords'
  BY <1>1 DEF LastWords
<1> QED
  BY <1>10, <1>12, <1>13, <1>14, <1>15, <1>16 DEF LinkInv

LEMMA Ends ==
  ASSUME LinkInv, up = << >>, Eof \/ JoinRefused \/ WriterFails
  PROVE  LinkInv'
<1>1. out \in Seq(LinkLine)
  BY DEF LinkInv, LinkTypes
<1>2. Thins(out, out)
  <2>1. Into([i \in DOMAIN out |-> i], out, out)
    BY DEF Into
  <2> QED
    BY <2>1 DEF Thins
<1>3. CASE Lost(out)
  BY <1>1, <1>2, <1>3, Losses
<1>4. CASE WriterFails
  <2>1. out # << >> /\ Lost(Tail(out))
    BY <1>4 DEF WriterFails, Reached, Unwritten
  <2>2. Tail(out) \in Seq(LinkLine) /\ Thins(Tail(out), out)
    BY <1>1, <2>1, ThinsTail
  <2> QED
    BY <2>1, <2>2, Losses
<1> QED
  BY <1>3, <1>4 DEF Eof, JoinRefused

\* A step is over, and its task goes on to another; nothing is queued or said.
LEMMA GoesOn ==
  ASSUME LinkInv, up = << >>, UNCHANGED up, NEW t \in Tasks, NEW next,
         at[t] \in AskPcs, control' = Nothing, at' = [at EXCEPT ![t] = next],
         next \in LinkPcs \ {"flushing", "clear"}, t = "loop" => next \in LoopPcs,
         next \in ClosePcs => at[t] = "clear" /\ next = "part",
         subject' = IF t = "loop" /\ next = "idle" THEN Nothing ELSE subject,
         active' = active \/ (Subject(t) \in known /\ active' = active \cup {Subject(t)}),
         UNCHANGED <<accepted, known, closing, created, out, got, said, net, down>>
  PROVE  LinkInv'
<1>1. at \in [Tasks -> LinkPcs] /\ at["loop"] \in LoopPcs /\ "loop" \in Tasks
  BY DEF LinkInv, LinkTypes, Tasks
<1>2. at'[t] = next /\ \A u \in Tasks : u # t => at'[u] = at[u]
  BY <1>1
<1>3. at' \in [Tasks -> LinkPcs] /\ at'["loop"] \in LoopPcs
  BY <1>1, <1>2
<1>4. at[t] # "idle" /\ at[t] # "flushing"
  BY AskedSteps DEF AskPcs
<1>5. \A u \in Tasks : at'[u] # "idle" => Subject(u)' = Subject(u)
  BY <1>1, <1>2 DEF Subject
<1>6. LinkTypes'
  BY <1>3 DEF LinkInv, LinkTypes
<1>7. LinkRoles'
  <2>1. /\ known \subseteq created /\ created \subseteq Managed
        /\ active \subseteq known \cup Static
        /\ \A u \in Managed : at[u] # "idle" => u \in created
        /\ \A u \in Tasks : at[u] \in ClosePcs => Hushed(Subject(u))
    BY DEF LinkInv, LinkRoles
  <2>2. \A u \in Managed : at'[u] # "idle" => u \in created
    BY <1>2, <1>4, <2>1 DEF Tasks
  <2>3. ASSUME NEW u \in Tasks, at'[u] \in ClosePcs
        PROVE  Hushed(Subject(u))'
    <3>1. at[u] \in ClosePcs
      BY <1>2, <2>3 DEF ClosePcs
    <3>2. Subject(u)' = Subject(u)
      BY <1>5, <2>3 DEF ClosePcs
    <3> QED
      BY <2>1, <3>1, <3>2 DEF Hushed
  <2> QED
    BY <2>1, <2>2, <2>3 DEF LinkRoles
<1>8. Marks'
  BY <1>2, <1>4 DEF LinkInv, Marks, IsMark
<1>9. LastSaid'
  <2>1. \A u \in Tasks :
          /\ at[u] \in {"clear", "part"} => Mum(out, Subject(u))
          /\ at[u] = "flushing" => net = "serving" /\ \E i \in DOMAIN out :
                IsMark(out[i], u) /\ SaidFrom(out, i, Subject(u))
    BY DEF LinkInv, LastSaid
  <2>2. ASSUME NEW u \in Tasks, at'[u] \in {"clear", "part"}
        PROVE  Mum(out, Subject(u)')
    <3>1. at[u] \in {"clear", "part"}
      BY <1>2, <2>2 DEF ClosePcs
    <3> QED
      BY <1>5, <2>1, <2>2, <3>1
  <2>3. ASSUME NEW u \in Tasks, at'[u] = "flushing"
        PROVE  net = "serving" /\ \E i \in DOMAIN out :
                  IsMark(out[i], u) /\ SaidFrom(out, i, Subject(u)')
    <3>1. at[u] = "flushing"
      BY <1>2, <2>3
    <3> QED
      BY <1>5, <2>1, <2>3, <3>1
  <2> QED
    BY <2>2, <2>3 DEF LastSaid, Mum, SaidFrom
<1>10. Numbered'
  BY Unsaid DEF LinkInv, Plain
<1>11. LastWords'
  BY DEF LastWords
<1> QED
  BY <1>6, <1>7, <1>8, <1>9, <1>10, <1>11 DEF LinkInv

\* A channel is removed, with whoever waits in its name.
LEMMA Removes ==
  ASSUME LinkInv, up = << >>, UNCHANGED up, NEW t \in Tasks, NEW c, NEW ok,
         at[t] \in AskPcs, c = Subject(t), control = Nothing \/ control.t = t,
         RemoveChannel(t, c, ok), UNCHANGED <<created, got, said, net, down>>
  PROVE  LinkInv'
<1> DEFINE K == {i \in DOMAIN out : out[i].k # "FLUSH" \/ out[i].c # c}
<1>1. /\ known' = known \ {c} /\ closing' = closing \ {c} /\ active' = active \ {c}
      /\ at' = [at EXCEPT ![c] = "idle", ![t] = "idle"] /\ out' = Kept(out, K)
      /\ subject' = IF t = "loop" THEN Nothing ELSE subject
      /\ control' = Nothing
      /\ accepted' = accepted \/ accepted' = accepted \ {c}
  BY DEF RemoveChannel, Forgotten, Unregister
<1>2. out \in Seq(LinkLine) /\ K \in SUBSET DOMAIN out
  BY DEF LinkInv, LinkTypes
<1> HIDE DEF K
<1>3. /\ out' \in Seq(LinkLine)
      /\ \E f : /\ Into(f, out', out) /\ \A m \in DOMAIN out' : f[m] \in K
                /\ \A i \in K : \E m \in DOMAIN out' : f[m] = i
  BY <1>1, <1>2, KeptPart
<1>4. PICK f : /\ Into(f, out', out) /\ \A m \in DOMAIN out' : f[m] \in K
               /\ \A i \in K : \E m \in DOMAIN out' : f[m] = i
  BY <1>3
<1>5. Thins(out', out)
  BY <1>4 DEF Thins
<1>6. at \in [Tasks -> LinkPcs] /\ at["loop"] \in LoopPcs /\ "loop" \in Tasks
  BY DEF LinkInv, LinkTypes, Tasks
<1>7. "idle" \in LinkPcs /\ "idle" \in LoopPcs /\ "idle" \notin ClosePcs
  BY DEF LinkPcs, LoopPcs, ClosePcs
<1>8. \A u \in Tasks : at'[u] = IF u = c \/ u = t THEN "idle" ELSE at[u]
  BY <1>1, <1>6
<1>9. at' \in [Tasks -> LinkPcs] /\ at'["loop"] \in LoopPcs
  BY <1>1, <1>6, <1>7, <1>8
<1>10. at[t] # "idle" /\ at[t] # "flushing"
  BY AskedSteps DEF AskPcs
<1>11. \A u \in Tasks : at'[u] # "idle" =>
           at'[u] = at[u] /\ u # c /\ u # t /\ Subject(u)' = Subject(u)
  BY <1>1, <1>8 DEF Subject
<1>12. LinkTypes'
  BY <1>1, <1>3, <1>9 DEF LinkInv, LinkTypes
<1>13. LinkRoles'
  <2>1. /\ known \subseteq created /\ created \subseteq Managed
        /\ active \subseteq known \cup Static
        /\ \A u \in Managed : at[u] # "idle" => u \in created
        /\ \A u \in Tasks : at[u] \in ClosePcs => Hushed(Subject(u))
    BY DEF LinkInv, LinkRoles
  <2>2. \A u \in Managed : at'[u] # "idle" => u \in created
    BY <1>11, <2>1 DEF Tasks
  <2>3. ASSUME NEW u \in Tasks, at'[u] \in ClosePcs
        PROVE  Hushed(Subject(u))'
    <3>1. at'[u] = at[u] /\ Subject(u)' = Subject(u)
      BY <1>7, <1>11, <2>3
    <3>2. Hushed(Subject(u))
      BY <2>1, <2>3, <3>1
    <3> QED
      BY <1>1, <3>1, <3>2 DEF Hushed
  <2> QED
    BY <1>1, <2>1, <2>2, <2>3 DEF LinkRoles
<1>14. /\ \A m \in DOMAIN out' : /\ f[m] \in DOMAIN out /\ out'[m] = out[f[m]] /\ m \in Nat
                                 /\ (out'[m].k = "FLUSH" => out'[m].c # c)
       /\ \A m, n \in DOMAIN out' : m < n => f[m] < f[n]
       /\ \A i \in DOMAIN out : i \in Nat
  <2>1. (\A i \in DOMAIN out : i \in Nat) /\ (\A m \in DOMAIN out' : m \in Nat)
    BY <1>2, <1>3
  <2>2. /\ \A m \in DOMAIN out' : f[m] \in DOMAIN out /\ out'[m] = out[f[m]] /\ f[m] \in K
        /\ \A m, n \in DOMAIN out' : m < n => f[m] < f[n]
    BY <1>4 DEF Into
  <2>3. \A i \in K : out[i].k = "FLUSH" => out[i].c # c
    BY DEF K
  <2> QED
    BY <2>1, <2>2, <2>3
<1>15. Marks'
  <2>1. /\ \A i \in DOMAIN out : out[i].k = "FLUSH" =>
              out[i].c \in Tasks /\ at[out[i].c] = "flushing"
        /\ \A i, j \in DOMAIN out : out[i].k = "FLUSH" /\ IsMark(out[j], out[i].c) => i = j
    BY DEF LinkInv, Marks
  <2>2. ASSUME NEW m \in DOMAIN out', NEW n \in DOMAIN out', out'[m].k = "FLUSH",
               IsMark(out'[n], out'[m].c)
        PROVE  m = n
    <3>1. f[m] = f[n]
      BY <1>14, <2>1, <2>2
    <3>2. ~(m < n) /\ ~(n < m)
      BY <1>14, <3>1
    <3> QED
      BY <1>14, <3>2
  <2>3. ASSUME NEW m \in DOMAIN out', out'[m].k = "FLUSH"
        PROVE  out'[m].c \in Tasks /\ at'[out'[m].c] = "flushing"
    <3>1. out'[m].c \in Tasks /\ at[out'[m].c] = "flushing" /\ out'[m].c # c
      BY <1>14, <2>1, <2>3
    <3> QED
      BY <1>8, <1>10, <3>1
  <2> QED
    BY <2>2, <2>3 DEF Marks
<1>16. LastSaid'
  <2>1. \A u \in Tasks :
          /\ at[u] \in {"clear", "part"} => Mum(out, Subject(u))
          /\ at[u] = "flushing" => net = "serving" /\ \E i \in DOMAIN out :
                IsMark(out[i], u) /\ SaidFrom(out, i, Subject(u))
    BY DEF LinkInv, LastSaid
  <2>2. ASSUME NEW u \in Tasks, at'[u] \in {"clear", "part"}
        PROVE  Mum(out', Subject(u)')
    <3>1. at'[u] = at[u] /\ Subject(u)' = Subject(u)
      BY <1>11, <2>2
    <3>2. Mum(out, Subject(u))
      BY <2>1, <2>2, <3>1
    <3> QED
      BY <1>5, <3>1, <3>2, Thinner
  <2>3. ASSUME NEW u \in Tasks, at'[u] = "flushing"
        PROVE  net = "serving" /\ \E m \in DOMAIN out' :
                  IsMark(out'[m], u) /\ SaidFrom(out', m, Subject(u)')
    <3>1. at[u] = "flushing" /\ u # c /\ Subject(u)' = Subject(u)
      BY <1>11, <2>3
    <3>2. net = "serving" /\ \E i \in DOMAIN out :
             IsMark(out[i], u) /\ SaidFrom(out, i, Subject(u))
      BY <2>1, <3>1
    <3>3. PICK i \in DOMAIN out : IsMark(out[i], u) /\ SaidFrom(out, i, Subject(u))
      BY <3>2
    <3>4. i \in K
      BY <3>1, <3>3 DEF K, IsMark
    <3>5. PICK m \in DOMAIN out' : f[m] = i
      BY <1>4, <3>4
    <3>6. out'[m] = out[i]
      BY <1>14, <3>5
    <3>7. SaidFrom(out', m, Subject(u))
      BY <1>14, <3>3, <3>5 DEF SaidFrom
    <3> QED
      BY <3>1, <3>2, <3>3, <3>6, <3>7
  <2> QED
    BY <2>2, <2>3 DEF LastSaid, Mum, SaidFrom
<1>17. Numbered'
  <2>1. /\ Rising(got) /\ Rising(out) /\ Under(got, out) /\ UpTo(got, said) /\ UpTo(out, said)
    BY DEF LinkInv, Numbered
  <2>2. /\ Rising(out') /\ Under(got, out') /\ UpTo(out', said)
    BY <1>5, <2>1, Thinner
  <2>3. Rising(up) /\ Under(got, up) /\ Under(up, out') /\ UpTo(up, said)
    BY DEF Rising, Under, UpTo
  <2> QED
    BY <2>1, <2>2, <2>3 DEF Numbered
<1>18. LastWords'
  BY DEF LastWords
<1> QED
  BY <1>12, <1>13, <1>15, <1>16, <1>17, <1>18 DEF LinkInv

LEMMA Proceeds ==
  ASSUME LinkInv, up = << >>, UNCHANGED up, NEW t \in Tasks, NEW ok \in BOOLEAN,
         at[t] \in AskPcs, control = Nothing \/ control.t = t, Proceed(t, ok)
  PROVE  LinkInv'
<1> DEFINE next == IF ok THEN Then[at[t]] ELSE Otherwise[at[t]]
<1>1. /\ next \in (LinkPcs \ {"flushing", "clear"}) \cup {"remove"}
      /\ at[t] \in LoopPcs => next \in LoopPcs \cup {"remove"}
      /\ next \in ClosePcs => at[t] = "clear" /\ next = "part"
  BY AskedSteps
<1>2. UNCHANGED <<net, created, down, said, got>>
  BY DEF Proceed, server
<1>3. CASE next = "remove"
  <2>1. PICK c : c = Subject(t)
    OBVIOUS
  <2>2. RemoveChannel(t, c, ok)
    BY <1>3, <2>1 DEF Proceed
  <2> QED
    BY <1>2, <2>1, <2>2, Removes
<1>4. CASE next # "remove"
  <2>1. /\ at' = [at EXCEPT ![t] = next]
        /\ subject' = IF t = "loop" /\ next = "idle" THEN Nothing ELSE subject
        /\ control' = IF control # Nothing /\ control.t = t THEN Nothing ELSE control
        /\ UNCHANGED <<accepted, known, closing, out>>
    BY <1>4 DEF Proceed
  <2>2. active' = active \/ (Subject(t) \in known /\ active' = active \cup {Subject(t)})
    BY <1>4 DEF Proceed, AfterTopic
  <2>3. control' = Nothing
    BY <2>1
  <2>4. t = "loop" => next \in LoopPcs
    BY <1>1, <1>4 DEF LinkInv, LinkTypes
  <2> HIDE DEF next
  <2> QED
    BY <1>1, <1>2, <1>4, <2>1, <2>2, <2>3, <2>4, GoesOn
<1> QED
  BY <1>3, <1>4

LEMMA Asked ==
  ASSUME LinkInv, up = << >>, NEW t \in Tasks,
         Ask(t) \/ Resume(t) \/ TimesOut(t)
  PROVE  LinkInv'
<1> USE DEF irc, bridge, server
<1>1. CASE Resume(t)
  <2>1. control # Nothing /\ control.t = t /\ at[t] \in AskPcs
    BY <1>1, AskedSteps DEF Resume, Answered, LinkInv, LinkRoles
  <2>2. PICK ok \in BOOLEAN : Proceed(t, ok)
    BY <1>1 DEF Resume
  <2> QED
    BY <1>1, <2>1, <2>2, Proceeds DEF Resume
<1>2. CASE TimesOut(t)
  <2>1. control # Nothing /\ control.t = t /\ at[t] \in AskPcs
    BY <1>2, AskedSteps DEF TimesOut, LinkInv, LinkRoles
  <2> QED
    BY <1>2, <2>1, Proceeds DEF TimesOut
<1>3. CASE Ask(t)
  <2> DEFINE c == Subject(t)
             value == IF at[t] \in {"topic", "reTopic"} THEN "on" ELSE "none"
             line == Valued(Asks[at[t]], c, IF at[t] = "part" THEN "closed" ELSE value)
  <2>1. at[t] \in AskPcs /\ control = Nothing
    BY <1>3, AskedSteps DEF Ask
  <2>2. CASE \E ok \in BOOLEAN : Proceed(t, ok) /\ UNCHANGED up
    BY <2>1, <2>2, Proceeds
  <2>3. CASE /\ c \in accepted
             /\ control' = [t |-> t, c |-> c, k |-> line.k, v |-> value, st |-> "sent"]
             /\ up' = up \/ Write(<<line>>)
             /\ UNCHANGED <<net, accepted, out, at, known, closing, active, subject, created>>
             /\ UNCHANGED <<got, down, said>>
    <3>1. c \in LinkNames /\ value \in {"none", "on"} /\ accepted \subseteq Channels
      BY <2>3 DEF LinkNames, LinkInv, LinkTypes
    <3>2. Asks[at[t]] \in LineKinds \ {"MSG"}
      BY <2>1, AskedSteps DEF LineKinds
    <3>3. line \in LinkLine /\ line.k = Asks[at[t]] /\ line.c = c
      BY <3>1, <3>2 DEF LinkLine, Valued
    <3>4. line.v = "closed" => at[t] = "part"
      BY <3>1 DEF Valued
    <3>5. control' \in LinkRequest /\ control' # Nothing /\ control'.t = t
      <4>1. line.k \in LineKinds
        BY <3>2, <3>3
      <4>2. control' \in LinkRequest /\ control'.t = t
        <5> HIDE DEF c, value, line
        <5> QED
          BY <2>3, <3>1, <4>1 DEF LinkRequest
      <4>3. control' # Nothing
        <5> HIDE DEF c, value, line
        <5> QED
          BY <2>3 DEF Nothing
      <4> QED
        BY <4>2, <4>3
    <3> HIDE DEF c, value, line
    <3>6. up' \in Seq(LinkLine) /\ (up' = <<line>> \/ up' = << >>)
      <4>1. <<line>> \in Seq(LinkLine) /\ << >> \in Seq(LinkLine)
        BY <3>3
      <4> QED
        BY <2>3, <4>1, Written
    <3>7. LinkTypes'
      BY <2>3, <3>5, <3>6 DEF LinkInv, LinkTypes
    <3>8. LinkRoles'
      <4>1. at[control'.t] \in DOMAIN Asks
        BY <2>1, <3>5, AskedSteps
      <4> QED
        BY <2>3, <4>1 DEF LinkInv, LinkRoles, Hushed, Subject
    <3>9. Marks'
      BY <2>3 DEF LinkInv, Marks, IsMark
    <3>10. LastSaid'
      BY <2>3 DEF LinkInv, LastSaid, Mum, SaidFrom, IsMark, Subject
    <3>11. Numbered'
      <4>1. \A i \in DOMAIN up' : up'[i].k # "MSG"
        BY <3>2, <3>3, <3>6
      <4> QED
        BY <2>3, <4>1 DEF LinkInv, Numbered, Rising, Under, UpTo
    <3>12. LastWords'
      <4>1. at[t] = "part" => Mum(out, c)
        BY DEF LinkInv, LastSaid, c
      <4>2. \A i \in 1 .. Len(up') : up'[i] = line
        BY <3>6
      <4>3. \A j \in 1 .. Len(out') : j \in DOMAIN out /\ out'[j] = out[j]
        BY <2>3 DEF LinkInv, LinkTypes
      <4> QED
        BY <3>3, <3>4, <4>1, <4>2, <4>3 DEF LastWords, Mum
    <3> QED
      BY <3>7, <3>8, <3>9, <3>10, <3>11, <3>12 DEF LinkInv
  <2>4. \/ Proceed(t, FALSE) /\ UNCHANGED up
        \/ Proceed(t, TRUE) /\ UNCHANGED up
        \/ /\ c \in accepted
           /\ control' = [t |-> t, c |-> c, k |-> line.k, v |-> value, st |-> "sent"]
           /\ up' = up \/ Write(<<line>>)
           /\ UNCHANGED <<net, accepted, out, at, known, closing, active, subject, created>>
           /\ UNCHANGED <<got, down, said>>
    BY <1>3 DEF Ask
  <2> QED
    <3> HIDE DEF c, value, line
    <3> QED
      BY <2>2, <2>3, <2>4
<1> QED
  BY <1>1, <1>2, <1>3

\* A task moves on, and says and queues nothing.
LEMMA Moves ==
  ASSUME LinkInv, up = << >>, UNCHANGED <<up, out, got, said, net, down, control>>,
         NEW t \in Tasks, NEW next,
         at[t] \notin AskPcs \cup {"flushing"}, at' = [at EXCEPT ![t] = next],
         next \in LinkPcs \ {"flushing", "clear", "part"}, t = "loop" => next \in LoopPcs,
         accepted' \in SUBSET Channels,
         known \subseteq known', known' \subseteq created', created' \subseteq Managed,
         created \subseteq created', closing \subseteq closing',
         known' \intersect created \subseteq known,
         active' \subseteq known' \cup Static,
         t \in Managed /\ next # "idle" => t \in created',
         t # "loop" => subject' = subject,
         next \in ClosePcs => Hushed(Subject(t))'
  PROVE  LinkInv'
<1>1. at \in [Tasks -> LinkPcs] /\ at["loop"] \in LoopPcs /\ "loop" \in Tasks
  BY DEF LinkInv, LinkTypes, Tasks
<1>2. at'[t] = next /\ \A u \in Tasks : u # t => at'[u] = at[u]
  BY <1>1
<1>3. at' \in [Tasks -> LinkPcs] /\ at'["loop"] \in LoopPcs
  BY <1>1, <1>2
<1>4. \A u \in Tasks : u # t => Subject(u)' = Subject(u)
  BY DEF Subject
<1>5. LinkTypes'
  BY <1>3 DEF LinkInv, LinkTypes
<1>6. LinkRoles'
  <2>1. /\ \A u \in Managed : at[u] # "idle" => u \in created
        /\ control # Nothing => at[control.t] \in DOMAIN Asks
        /\ \A u \in Tasks : at[u] \in ClosePcs => Hushed(Subject(u))
    BY DEF LinkInv, LinkRoles
  <2>2. \A u \in Managed : at'[u] # "idle" => u \in created'
    BY <1>2, <2>1 DEF Tasks
  <2>3. control' # Nothing => at'[control'.t] \in DOMAIN Asks
    <3>1. control # Nothing => control.t \in Tasks /\ control.t # t
      BY <2>1, AskedSteps DEF LinkInv, LinkTypes, LinkRequest
    <3> QED
      BY <1>2, <2>1, <3>1
  <2>4. ASSUME NEW u \in Tasks, at'[u] \in ClosePcs
        PROVE  Hushed(Subject(u))'
    <3>1. CASE u = t
      BY <1>2, <2>4, <3>1
    <3>2. CASE u # t
      <4>1. at[u] \in ClosePcs /\ Subject(u)' = Subject(u)
        BY <1>2, <1>4, <2>4, <3>2
      <4> QED
        BY <2>1, <4>1 DEF Hushed
    <3> QED
      BY <3>1, <3>2
  <2> QED
    BY <2>2, <2>3, <2>4 DEF LinkRoles
<1>7. Marks'
  BY <1>2 DEF LinkInv, Marks, IsMark
<1>8. LastSaid'
  <2>1. \A u \in Tasks :
          /\ at[u] \in {"clear", "part"} => Mum(out, Subject(u))
          /\ at[u] = "flushing" => net = "serving" /\ \E i \in DOMAIN out :
                IsMark(out[i], u) /\ SaidFrom(out, i, Subject(u))
    BY DEF LinkInv, LastSaid
  <2>2. ASSUME NEW u \in Tasks, at'[u] \in {"clear", "part", "flushing"}
        PROVE  u # t /\ at[u] = at'[u] /\ Subject(u)' = Subject(u)
    BY <1>2, <1>4, <2>2
  <2> QED
    BY <2>1, <2>2 DEF LastSaid, Mum, SaidFrom
<1>9. Numbered'
  BY Unsaid DEF LinkInv, Plain
<1>10. LastWords'
  BY DEF LastWords
<1> QED
  BY <1>5, <1>6, <1>7, <1>8, <1>9, <1>10 DEF LinkInv

LEMMA Manages ==
  ASSUME LinkBounds, LinkInv, up = << >>,
         \/ \E c \in Managed : Create(c) \/ Undo(c) \/ Close(c)
         \/ LoopTakes \/ LoopGoesOn \/ LoopGivesUp
  PROVE  LinkInv'
<1> USE DEF irc, bridge, server
<1>1. /\ known \subseteq created /\ created \subseteq Managed
      /\ active \subseteq known \cup Static
      /\ \A u \in Managed : at[u] # "idle" => u \in created
      /\ \A u \in Tasks : at[u] \in ClosePcs => Hushed(Subject(u))
      /\ accepted \subseteq Channels
      /\ at["loop"] \in LoopPcs /\ at \in [Tasks -> LinkPcs]
  BY DEF LinkInv, LinkRoles, LinkTypes
<1>2. "loop" \in Tasks /\ "loop" \notin Managed /\ Managed \subseteq Tasks
  BY DEF Tasks, LinkBounds
<1>3. ASSUME NEW c \in Managed, Create(c)
      PROVE  LinkInv'
  <2>1. c \in Tasks /\ c # "loop" /\ at[c] = "idle"
    BY <1>1, <1>2, <1>3 DEF Create
  <2>2. at[c] \notin AskPcs \cup {"flushing"}
    BY <2>1 DEF AskPcs
  <2>3. "join" \in LinkPcs \ {"flushing", "clear", "part"} /\ "join" \notin ClosePcs
    BY DEF LinkPcs, ClosePcs
  <2>4. /\ accepted' \in SUBSET Channels /\ known' = known \cup {c}
        /\ created' = created \cup {c} /\ c \notin created /\ UNCHANGED <<closing, active, subject>>
        /\ UNCHANGED <<up, out, got, said, net, down, control>>
        /\ at' = [at EXCEPT ![c] = "join"]
    BY <1>1, <1>3 DEF Create, Channels
  <2> QED
    BY <1>1, <2>1, <2>2, <2>3, <2>4, Moves
<1>4. ASSUME NEW c \in Managed, Undo(c)
      PROVE  LinkInv'
  <2>1. c \in Tasks /\ c # "loop" /\ at[c] = "undo"
    BY <1>2, <1>4 DEF Undo
  <2>2. at[c] \notin AskPcs \cup {"flushing"} /\ c \in created
    BY <1>1, <2>1 DEF AskPcs
  <2>3. "unset" \in LinkPcs \ {"flushing", "clear", "part"} /\ "unset" \notin ClosePcs
    BY DEF LinkPcs, ClosePcs
  <2>4. /\ UNCHANGED <<closing, active, subject, known, created, accepted>>
        /\ UNCHANGED <<up, out, got, said, net, down, control>>
        /\ at' = [at EXCEPT ![c] = "unset"]
    BY <1>4 DEF Undo
  <2> QED
    BY <1>1, <2>1, <2>2, <2>3, <2>4, Moves
<1>5. ASSUME NEW c \in Managed, Close(c)
      PROVE  LinkInv'
  <2>1. c \in Tasks /\ c # "loop" /\ at[c] = "idle" /\ c \in created
    BY <1>1, <1>2, <1>5 DEF Close
  <2>2. at[c] \notin AskPcs \cup {"flushing"}
    BY <2>1 DEF AskPcs
  <2>3. "flush" \in LinkPcs \ {"flushing", "clear", "part"}
    BY DEF LinkPcs, LoopPcs, ClosePcs
  <2>4. /\ UNCHANGED <<active, subject, known, created, accepted>> /\ closing' = closing \cup {c}
        /\ UNCHANGED <<up, out, got, said, net, down, control>>
        /\ at' = [at EXCEPT ![c] = "flush"]
    BY <1>5 DEF Close
  <2>5. Hushed(Subject(c))'
    BY <2>1, <2>4 DEF Hushed, Subject
  <2> QED
    BY <1>1, <2>1, <2>2, <2>3, <2>4, <2>5, Moves
<1>6. CASE LoopTakes
  <2> DEFINE m == Head(inbox)
             awaits == m.c \in known /\ (m.c \in closing \/ m.v = "331")
             next == IF ~awaits THEN "idle"
                     ELSE IF m.c \in closing THEN "awaitClose" ELSE "awaitFix"
  <2>1. at["loop"] \notin AskPcs \cup {"flushing"}
    BY <1>6 DEF LoopTakes, AskPcs
  <2>2. next \in LinkPcs \ {"flushing", "clear", "part"} /\ next \in LoopPcs
    BY DEF LinkPcs, LoopPcs, ClosePcs
  <2>3. /\ UNCHANGED <<known, closing, created, accepted>>
        /\ UNCHANGED <<up, out, got, said, net, down, control>>
        /\ at' = [at EXCEPT !["loop"] = next] /\ subject' = IF awaits THEN m.c ELSE Nothing
    BY <1>6 DEF LoopTakes
  <2>4. active' \subseteq known \cup Static
    <3>1. CASE m.c \in Static \/ m.c \in known
      <4>1. active' \subseteq active \cup {m.c}
        BY <1>6 DEF LoopTakes, Activates
      <4> QED
        BY <1>1, <3>1, <4>1
    <3>2. CASE ~(m.c \in Static \/ m.c \in known)
      <4>1. active' = active \ {m.c}
        BY <1>6, <3>2 DEF LoopTakes
      <4> QED
        BY <1>1, <4>1
    <3> QED
      BY <3>1, <3>2
  <2>5. next \in ClosePcs => Hushed(Subject("loop"))'
    <3>1. next \in ClosePcs => awaits /\ m.c \in closing
      BY DEF ClosePcs
    <3> QED
      BY <1>1, <2>3, <3>1 DEF Hushed, Subject
  <2> HIDE DEF next
  <2> QED
    BY <1>1, <1>2, <2>1, <2>2, <2>3, <2>4, <2>5, Moves
<1>7. CASE LoopGoesOn
  <2> DEFINE next == IF at["loop"] = "awaitClose" THEN "flush" ELSE "rePrivate"
  <2>1. at["loop"] \notin AskPcs \cup {"flushing"}
    BY <1>7 DEF LoopGoesOn, AskPcs
  <2>2. next \in LinkPcs \ {"flushing", "clear", "part"} /\ next \in LoopPcs
    BY DEF LinkPcs, LoopPcs, ClosePcs
  <2>3. /\ UNCHANGED <<known, closing, created, accepted, active, subject>>
        /\ UNCHANGED <<up, out, got, said, net, down, control>>
        /\ at' = [at EXCEPT !["loop"] = next]
    BY <1>7 DEF LoopGoesOn
  <2>4. next \in ClosePcs => Hushed(Subject("loop"))'
    <3>1. next \in ClosePcs => at["loop"] \in ClosePcs
      BY DEF ClosePcs
    <3> QED
      BY <1>1, <1>2, <2>3, <3>1 DEF Hushed, Subject
  <2> HIDE DEF next
  <2> QED
    BY <1>1, <1>2, <2>1, <2>2, <2>3, <2>4, Moves
<1>8. CASE LoopGivesUp
  <2>1. at["loop"] \notin AskPcs \cup {"flushing"}
    BY <1>8 DEF LoopGivesUp, AskPcs
  <2>2. "idle" \in LinkPcs \ {"flushing", "clear", "part"} /\ "idle" \in LoopPcs \ ClosePcs
    BY DEF LinkPcs, LoopPcs, ClosePcs
  <2>3. /\ UNCHANGED <<known, closing, created, accepted, active>>
        /\ UNCHANGED <<up, out, got, said, net, down, control>>
        /\ at' = [at EXCEPT !["loop"] = "idle"]
    BY <1>8 DEF LoopGivesUp
  <2> QED
    BY <1>1, <1>2, <2>1, <2>2, <2>3, Moves
<1> QED
  BY <1>3, <1>4, <1>5, <1>6, <1>7, <1>8

\* A close waits for what is queued, or goes on when nothing is.
LEMMA Waits ==
  ASSUME LinkBounds, LinkInv, up = << >>, NEW t \in Tasks, Flush(t)
  PROVE  LinkInv'
<1> USE DEF irc, bridge, server
<1> DEFINE off == net # "serving" \/ Subject(t) \notin known
<1>1. /\ known \subseteq created /\ created \subseteq Managed
      /\ active \subseteq known \cup Static
      /\ \A u \in Managed : at[u] # "idle" => u \in created
      /\ \A u \in Tasks : at[u] \in ClosePcs => Hushed(Subject(u))
      /\ control # Nothing => at[control.t] \in DOMAIN Asks
      /\ accepted \subseteq Channels /\ out \in Seq(LinkLine)
      /\ at["loop"] \in LoopPcs /\ at \in [Tasks -> LinkPcs]
  BY DEF LinkInv, LinkRoles, LinkTypes
<1>2. /\ at[t] = "flush" /\ at[t] \notin AskPcs \cup {"flushing"}
      /\ UNCHANGED <<up, got, said, net, down, control, accepted, known, closing, active, created>>
  BY DEF Flush, AskPcs
<1>3. CASE off
  <2>1. /\ at' = [at EXCEPT ![t] = "idle"] /\ out' = out
        /\ t # "loop" => subject' = subject
    BY <1>3 DEF Flush
  <2>2. "idle" \in LinkPcs \ {"flushing", "clear", "part"} /\ "idle" \in LoopPcs \ ClosePcs
    BY DEF LinkPcs, LoopPcs, ClosePcs
  <2> QED
    BY <1>1, <1>2, <2>1, <2>2, Moves
<1>4. CASE ~off
  <2> DEFINE next == IF out # << >> THEN "flushing" ELSE "clear"
             m == Line("FLUSH", t)
  <2>1. /\ at' = [at EXCEPT ![t] = next] /\ subject' = subject
        /\ out' = IF out # << >> THEN Append(out, m) ELSE out
    BY <1>4 DEF Flush, Queued
  <2>2. m \in LinkLine /\ m.k = "FLUSH" /\ m.c = t
    BY DEF LinkLine, LineKinds, LinkNames, Line
  <2>3. next \in {"flushing", "clear"} /\ next \in LoopPcs /\ next \in LinkPcs
    BY DEF LinkPcs, LoopPcs, ClosePcs
  <2> HIDE DEF m, next
  <2>4. at'[t] = next /\ \A u \in Tasks : u # t => at'[u] = at[u]
    BY <1>1, <2>1
  <2>5. at' \in [Tasks -> LinkPcs] /\ at'["loop"] \in LoopPcs
    BY <1>1, <2>1, <2>3 DEF Tasks
  <2>6. /\ out' \in Seq(LinkLine)
        /\ \A i \in DOMAIN out : i \in DOMAIN out' /\ out'[i] = out[i]
        /\ \A i \in DOMAIN out' : i \in DOMAIN out \/ (next = "flushing" /\ i = Len(out) + 1)
        /\ next = "flushing" => Len(out) + 1 \in DOMAIN out' /\ out'[Len(out) + 1] = m
        /\ Len(out) \in Nat /\ \A i \in DOMAIN out : i < Len(out) + 1
        /\ \A i \in DOMAIN out' : i <= Len(out) + 1
    <3>1. CASE out # << >>
      <4>1. next = "flushing" /\ out' = Append(out, m)
        BY <2>1, <3>1 DEF next
      <4>2. Append(out, m) \in Seq(LinkLine)
        BY <1>1, <2>2
      <4> QED
        BY <1>1, <2>2, <4>1, <4>2, OneMore
    <3>2. CASE out = << >>
      BY <1>1, <2>1, <3>2 DEF next
    <3> QED
      BY <3>1, <3>2
  <2>7. \A u : Subject(u)' = Subject(u) /\ (Hushed(u)' = Hushed(u))
    BY <1>2, <2>1 DEF Subject, Hushed
  <2>8. LinkTypes'
    BY <1>2, <2>5, <2>6 DEF LinkInv, LinkTypes
  <2>9. LinkRoles'
    <3>1. \A u \in Managed : at'[u] # "idle" => u \in created
      BY <1>1, <1>2, <2>4 DEF Tasks
    <3>2. control # Nothing => at'[control.t] \in DOMAIN Asks
      <4>1. control # Nothing => control.t \in Tasks /\ control.t # t
        BY <1>1, <1>2, AskedSteps DEF LinkInv, LinkTypes, LinkRequest
      <4> QED
        BY <1>1, <2>4, <4>1
    <3>3. ASSUME NEW u \in Tasks, at'[u] \in ClosePcs
          PROVE  Hushed(Subject(u))'
      <4>1. at[u] \in ClosePcs
        BY <1>2, <2>4, <3>3 DEF ClosePcs
      <4> QED
        BY <1>1, <1>2, <2>1, <4>1 DEF Hushed, Subject
    <3> QED
      BY <1>1, <1>2, <3>1, <3>2, <3>3 DEF LinkRoles
  <2>10. /\ \A i \in DOMAIN out : out[i].k = "FLUSH" =>
               out[i].c \in Tasks /\ at[out[i].c] = "flushing"
         /\ \A i, j \in DOMAIN out : out[i].k = "FLUSH" /\ IsMark(out[j], out[i].c) => i = j
    BY DEF LinkInv, Marks
  <2>11. \A i \in DOMAIN out : out[i].k = "FLUSH" => out[i].c # t
    BY <1>2, <2>10
  <2>12. Marks'
    <3>1. ASSUME NEW i \in DOMAIN out', NEW j \in DOMAIN out', out'[i].k = "FLUSH",
                 IsMark(out'[j], out'[i].c)
          PROVE  i = j
      BY <2>2, <2>6, <2>10, <2>11, <3>1 DEF IsMark
    <3>2. ASSUME NEW i \in DOMAIN out', out'[i].k = "FLUSH"
          PROVE  out'[i].c \in Tasks /\ at'[out'[i].c] = "flushing"
      BY <2>2, <2>4, <2>6, <2>10, <2>11, <3>2
    <3> QED
      BY <3>1, <3>2 DEF Marks
  <2>13. LastSaid'
    <3>1. \A u \in Tasks :
            /\ at[u] \in {"clear", "part"} => Mum(out, Subject(u))
            /\ at[u] = "flushing" => net = "serving" /\ \E i \in DOMAIN out :
                  IsMark(out[i], u) /\ SaidFrom(out, i, Subject(u))
      BY DEF LinkInv, LastSaid
    <3>2. ASSUME NEW u \in Tasks, at'[u] \in {"clear", "part"}
          PROVE  Mum(out', Subject(u))
      <4>1. CASE u = t
        <5>1. out' = << >>
          BY <2>1, <2>4, <3>2, <4>1 DEF next
        <5> QED
          BY <5>1 DEF Mum
      <4>2. CASE u # t
        <5>1. Mum(out, Subject(u))
          BY <2>4, <3>1, <3>2, <4>2
        <5> QED
          BY <2>2, <2>6, <5>1 DEF Mum
      <4> QED
        BY <4>1, <4>2
    <3>3. ASSUME NEW u \in Tasks, at'[u] = "flushing"
          PROVE  net = "serving" /\ \E i \in DOMAIN out' :
                    IsMark(out'[i], u) /\ SaidFrom(out', i, Subject(u))
      <4>1. CASE u = t
        <5>1. next = "flushing" /\ net = "serving"
          BY <1>4, <2>4, <3>3, <4>1
        <5>2. IsMark(out'[Len(out) + 1], t) /\ Len(out) + 1 \in DOMAIN out'
          BY <2>2, <2>6, <5>1 DEF IsMark
        <5>3. SaidFrom(out', Len(out) + 1, Subject(t))
          <6>1. \A j \in DOMAIN out' : j \in Nat /\ ~(Len(out) + 1 < j)
            BY <2>6
          <6> QED
            BY <6>1 DEF SaidFrom
        <5> QED
          BY <4>1, <5>1, <5>2, <5>3
      <4>2. CASE u # t
        <5>1. net = "serving" /\ \E i \in DOMAIN out :
                  IsMark(out[i], u) /\ SaidFrom(out, i, Subject(u))
          BY <2>4, <3>1, <3>3, <4>2
        <5>2. PICK i \in DOMAIN out : IsMark(out[i], u) /\ SaidFrom(out, i, Subject(u))
          BY <5>1
        <5>3. SaidFrom(out', i, Subject(u))
          BY <2>2, <2>6, <5>2 DEF SaidFrom
        <5> QED
          BY <2>6, <5>1, <5>2, <5>3
      <4> QED
        BY <4>1, <4>2
    <3> QED
      BY <1>2, <2>7, <3>2, <3>3 DEF LastSaid
  <2>14. Numbered'
    <3>1. /\ Rising(got) /\ Rising(out) /\ Under(got, out) /\ UpTo(got, said) /\ UpTo(out, said)
      BY DEF LinkInv, Numbered
    <3>2. \A i \in DOMAIN out' : out'[i].k = "MSG" => i \in DOMAIN out /\ out'[i] = out[i]
      BY <2>2, <2>6
    <3>3. Rising(out') /\ Under(got, out') /\ UpTo(out', said)
      BY <3>1, <3>2 DEF Rising, Under, UpTo
    <3>4. Rising(up) /\ Under(got, up) /\ Under(up, out') /\ UpTo(up, said)
      BY DEF Rising, Under, UpTo
    <3> QED
      BY <1>2, <3>1, <3>3, <3>4 DEF Numbered
  <2>15. LastWords'
    BY <1>2 DEF LastWords
  <2> QED
    BY <2>8, <2>9, <2>12, <2>13, <2>14, <2>15 DEF LinkInv
<1> QED
  BY <1>3, <1>4

\* One queue after the other.
LEMMA BothRising ==
  ASSUME NEW S, NEW a \in Seq(S), NEW b \in Seq(S), Rising(a), Rising(b), Under(a, b)
  PROVE  Rising(a \o b) /\ \A c : Under(a, c) /\ Under(b, c) => Under(a \o b, c)
<1>1. /\ Len(a) \in Nat /\ \A i \in DOMAIN (a \o b) : i \in Nat
      /\ \A i \in DOMAIN (a \o b) :
            \/ i \in DOMAIN a /\ (a \o b)[i] = a[i] /\ i <= Len(a)
            \/ /\ i - Len(a) \in DOMAIN b /\ (a \o b)[i] = b[i - Len(a)] /\ i > Len(a)
  OBVIOUS
<1>2. Rising(a \o b)
  <2> SUFFICES ASSUME NEW i \in DOMAIN (a \o b), NEW j \in DOMAIN (a \o b), i < j,
                      (a \o b)[i].k = "MSG", (a \o b)[j].k = "MSG"
               PROVE  (a \o b)[i].v < (a \o b)[j].v
    BY DEF Rising
  <2>1. CASE i \in DOMAIN a /\ (a \o b)[i] = a[i] /\ i <= Len(a)
    BY <1>1, <2>1 DEF Rising, Under
  <2>2. CASE i - Len(a) \in DOMAIN b /\ (a \o b)[i] = b[i - Len(a)] /\ i > Len(a)
    <3>1. j - Len(a) \in DOMAIN b /\ (a \o b)[j] = b[j - Len(a)] /\ i - Len(a) < j - Len(a)
      BY <1>1, <2>2
    <3> QED
      BY <2>2, <3>1 DEF Rising
  <2> QED
    BY <1>1, <2>1, <2>2
<1>3. \A c : Under(a, c) /\ Under(b, c) => Under(a \o b, c)
  BY <1>1 DEF Under
<1> QED
  BY <1>2, <1>3

LEMMA LinkShown ==
  ASSUME LinkInv
  PROVE  SaidBeforeClose
<1>1. up \in Seq(LinkLine) /\ out \in Seq(LinkLine) /\ got \in Seq(LinkLine)
  BY DEF LinkInv, LinkTypes
<1>2. InOrderAtMostOnce
  <2>1. /\ Rising(got) /\ Rising(up) /\ Rising(out)
        /\ Under(got, up) /\ Under(got, out) /\ Under(up, out)
    BY DEF LinkInv, Numbered
  <2>2. got \o up \in Seq(LinkLine) /\ Rising(got \o up) /\ Under(got \o up, out)
    BY <1>1, <2>1, BothRising
  <2>3. Rising((got \o up) \o out)
    BY <1>1, <2>1, <2>2, BothRising
  <2>4. got \o up \o out = (got \o up) \o out
    OBVIOUS
  <2> QED
    BY <2>3, <2>4 DEF InOrderAtMostOnce, Rising
<1>3. LastWords
  BY DEF LinkInv
<1>4. FlushWillEnd
  <2>1. DOMAIN out = 1 .. Len(out)
    BY <1>1
  <2> QED
    BY <2>1 DEF LinkInv, LastSaid, IsMark, FlushWillEnd
<1> QED
  BY <1>2, <1>3, <1>4 DEF SaidBeforeClose

LEMMA LinkInit ==
  ASSUME LinkBounds, Init
  PROVE  LinkInv
<1>1. /\ up = << >> /\ down = << >> /\ out = << >> /\ got = << >> /\ said = 0
      /\ accepted = Static /\ at = [t \in Tasks |-> "idle"] /\ control = Nothing
      /\ known = {} /\ closing = {} /\ active = {} /\ created = {}
  BY DEF Init
<1>2. "idle" \in LinkPcs /\ "idle" \in LoopPcs \ ClosePcs /\ "loop" \in Tasks
  BY DEF LinkPcs, LoopPcs, ClosePcs, Tasks
<1>3. \A t \in Tasks : at[t] = "idle"
  BY <1>1
<1>4. LinkTypes
  BY <1>1, <1>2 DEF LinkTypes, Channels
<1>5. LinkRoles
  BY <1>1, <1>2, <1>3 DEF LinkRoles, Tasks
<1>6. Marks
  BY <1>1 DEF Marks
<1>7. LastSaid
  BY <1>3 DEF LastSaid
<1>8. Numbered
  BY <1>1 DEF Numbered, Rising, Under, UpTo
<1>9. LastWords
  BY <1>1 DEF LastWords
<1> QED
  BY <1>4, <1>5, <1>6, <1>7, <1>8, <1>9 DEF LinkInv

LEMMA LinkStep ==
  ASSUME LinkBounds, LinkInv, [Next]_vars
  PROVE  LinkInv'
<1>1. CASE UNCHANGED vars
  <2>1. /\ UNCHANGED <<up, down, out, got, said, accepted, at, control, subject, net>>
        /\ UNCHANGED <<known, closing, active, created>>
    BY <1>1 DEF vars, irc, bridge, server
  <2>2. LinkTypes' /\ LinkRoles' /\ Marks'
    BY <2>1 DEF LinkInv, LinkTypes, LinkRoles, Marks, Hushed, IsMark, Subject
  <2>3. LastSaid'
    BY <2>1 DEF LinkInv, LastSaid, Mum, SaidFrom, IsMark, Subject
  <2>4. Numbered' /\ LastWords'
    BY <2>1 DEF LinkInv, Numbered, Rising, Under, UpTo, LastWords
  <2> QED
    BY <2>2, <2>3, <2>4 DEF LinkInv
<1>2. CASE ServerTakes
  BY <1>2, Serves
<1>3. ASSUME up = << >>,
             \/ Connect \/ Welcome \/ Break
             \/ \E c \in Channels :
                   Kick(c) \/ \E v \in {"on", "none"} : OwnerSets(c, v)
      PROVE  LinkInv'
  BY <1>3, Connections
<1>4. ASSUME up = << >>, Eof \/ JoinRefused \/ WriterFails
      PROVE  LinkInv'
  BY <1>4, Ends
<1>5. ASSUME up = << >>, ReadLine
      PROVE  LinkInv'
  BY <1>5, Reads
<1>6. ASSUME up = << >>, WriteMessage \/ Flushed
      PROVE  LinkInv'
  BY <1>6, Writes, Flushes
<1>7. ASSUME up = << >>, NEW c \in Talk, Say(c)
      PROVE  LinkInv'
  <2>1. c \in Channels
    BY DEF LinkBounds
  <2> QED
    BY <1>7, <2>1, Speaks
<1>8. ASSUME up = << >>, NEW t \in Tasks, Ask(t) \/ Resume(t) \/ TimesOut(t)
      PROVE  LinkInv'
  BY <1>8, Asked
<1>9. ASSUME up = << >>, NEW t \in Tasks, Flush(t)
      PROVE  LinkInv'
  BY <1>9, Waits
<1>10. ASSUME up = << >>,
              \/ \E c \in Managed : Create(c) \/ Undo(c) \/ Close(c)
              \/ LoopTakes \/ LoopGoesOn \/ LoopGivesUp
       PROVE  LinkInv'
  BY <1>10, Manages
<1> QED
  BY <1>1, <1>2, <1>3, <1>4, <1>5, <1>6, <1>7, <1>8, <1>9, <1>10 DEF Next

\* What is published reaches the server in its way and once, over any number
\* of connections; a close parts only after the last thing said in its channel,
\* and its wait for the queue ends as long as the writer works.
THEOREM SaidInOrder ==
  ASSUME LinkBounds
  PROVE  Spec => []SaidBeforeClose
<1>1. Init => LinkInv
  BY LinkInit
<1>2. LinkInv /\ [Next]_vars => LinkInv'
  BY LinkStep
<1>3. LinkInv => SaidBeforeClose
  BY LinkShown
<1> QED
  BY <1>1, <1>2, <1>3, PTL DEF Spec
=============================================================================
