--------------------------- MODULE QueueStoreProofs ---------------------------
(***************************************************************************)
(* Proofs about QueueStore for any items, lists, texts and limit.          *)
(*                                                                         *)
(* The argument: no two rows of a list share a position (Unique), and each *)
(* position is smaller than the number of rows (Bounded); n different      *)
(* numbers below n are all of them, so a list has no holes.  A move keeps  *)
(* both because ranks among the other rows are different and fewer.        *)
(*                                                                         *)
(* For the refinement, a list without holes is read one way only (Reads):  *)
(* the row at position p stands at place p + 1.  So to know what a step    *)
(* makes of a list it is enough to exhibit one sequence that reads it.     *)
(***************************************************************************)
EXTENDS QueueStore, FiniteSetTheorems, SequenceTheorems, TLAPS

Unique ==
    \A r, s \in rows : r.list = s.list /\ r.position = s.position => r = s
Bounded ==
    \A r \in rows : r.position < Cardinality(RowsOf(r.list))

IInv == TypeOK /\ IsFiniteSet(rows) /\ Unique /\ Bounded
-----------------------------------------------------------------------------
\* A finite table has finite lists, whose sizes are numbers.
LEMMA ListSizes ==
  ASSUME IsFiniteSet(rows), NEW l
  PROVE  IsFiniteSet(RowsOf(l)) /\ Cardinality(RowsOf(l)) \in Nat
<1>1. RowsOf(l) \in SUBSET rows
  BY DEF RowsOf
<1> QED
  BY <1>1, FS_Subset, FS_CardinalityType

\* n different numbers below n are all the numbers below n.
LEMMA NoHoles ==
  ASSUME IInv, NEW l
  PROVE  Positions(l) = 0 .. (Cardinality(RowsOf(l)) - 1)
<1> DEFINE S == RowsOf(l)
           n == Cardinality(RowsOf(l))
           f == [r \in S |-> r.position]
<1>1. IsFiniteSet(S) /\ n \in Nat
  BY ListSizes DEF IInv
<1>2. \A r \in S : r \in rows /\ r.list = l /\ r.position \in Nat /\ r.position < n
  BY DEF IInv, TypeOK, Row, RowsOf, Bounded
<1>3. f \in Bijection(S, Positions(l))
  <2>1. \A r, s \in S : r.position = s.position => r = s
    BY <1>2 DEF IInv, Unique
  <2> QED
    BY <2>1 DEF Bijection, Injection, Surjection, IsInjective, Positions
<1>4. IsFiniteSet(Positions(l)) /\ Cardinality(Positions(l)) = n
  BY <1>1, <1>3, FS_Bijection DEF ExistsBijection
<1>5. Positions(l) \subseteq 0 .. n - 1
  BY <1>1, <1>2 DEF Positions
<1>6. IsFiniteSet(0 .. n - 1) /\ Cardinality(0 .. n - 1) = n
  BY <1>1, FS_Interval, SMTT(30)
<1> QED
  BY <1>4, <1>5, <1>6, FS_Subset

\* The row of an id that is known.
LEMMA TheRow ==
  ASSUME TypeOK, NEW id, Known(id)
  PROVE  RowOf(id) \in rows /\ RowOf(id).id = id
  BY DEF Known, RowOf

\* UPDATE: rows change, and keep their ids and lists.
LEMMA Rewriting ==
  ASSUME IsFiniteSet(rows), \A r, s \in rows : r.id = s.id => r = s,
         NEW kept \in SUBSET rows, NEW f \in [kept -> rows'],
         \A r \in kept : f[r].id = r.id /\ f[r].list = r.list,
         \A t \in rows' : \E r \in kept : f[r] = t
  PROVE  /\ IsFiniteSet(rows')
         /\ \A r, s \in rows' : r.id = s.id => r = s
         /\ \A l : Cardinality(RowsOf(l)') = Cardinality(RowsOf(l) \cap kept)
<1>1. \A r, s \in rows' : r.id = s.id => r = s
  OBVIOUS
<1>2. IsFiniteSet(kept)
  BY FS_Subset
<1>3. IsFiniteSet(rows')
  <2>1. f \in Surjection(kept, rows')
    BY DEF Surjection
  <2> QED
    BY <1>2, <2>1, FS_Surjection
<1>4. ASSUME NEW l PROVE Cardinality(RowsOf(l)') = Cardinality(RowsOf(l) \cap kept)
  <2> DEFINE S == RowsOf(l) \cap kept
             T == {r \in rows' : r.list = l}
             g == [r \in S |-> f[r]]
  <2>1. S \in SUBSET kept /\ IsFiniteSet(S)
    BY <1>2, FS_Subset
  <2>2. \A r \in S : r \in kept /\ r \in rows /\ r.list = l /\ f[r] \in T
    BY DEF RowsOf
  <2>3. \A r, s \in S : f[r] = f[s] => r = s
    BY <2>2
  <2>4. \A t \in T : \E r \in S : f[r] = t
    BY DEF RowsOf
  <2>5. g \in Bijection(S, T)
    <3> HIDE DEF S, T
    <3> QED
      BY <2>2, <2>3, <2>4 DEF Bijection, Injection, Surjection, IsInjective
  <2>6. Cardinality(T) = Cardinality(S)
    <3> HIDE DEF S, T, g
    <3> QED
      BY <2>1, <2>5, FS_Bijection DEF ExistsBijection
  <2>7. RowsOf(l)' = T
    BY DEF RowsOf
  <2> QED
    BY <2>6, <2>7
<1> QED
  BY <1>1, <1>3, <1>4
-----------------------------------------------------------------------------
LEMMA RefuseInv ==
  ASSUME IInv, NEW result \in Outcomes, Refuse(result)
  PROVE  IInv'
  BY DEF IInv, TypeOK, Unique, Bounded, RowsOf, Refuse

LEMMA EnqueueInv ==
  ASSUME LimitBounds, IInv, NEW id \in Items, NEW l \in Lists, NEW text \in Texts,
         Enqueue(id, l, text)
  PROVE  IInv'
<1> DEFINE count == Cardinality(RowsOf(l))
           new == [id |-> id, list |-> l, position |-> count, text |-> text]
<1>1. CASE Refuse("limit") \/ Refuse("integrity")
  BY <1>1, RefuseInv DEF Outcomes
<1>2. CASE /\ count < Limit /\ ~Known(id) /\ count \notin Positions(l)
           /\ rows' = rows \cup {new}
           /\ older' = older \cup {<<r.id, id>> : r \in rows}
           /\ outcome' = "ok"
  <2>1. count \in Nat
    BY ListSizes DEF IInv
  <2>2. new \in Row /\ new \notin rows /\ new.id = id /\ new.list = l /\ new.position = count
    BY <1>2, <2>1 DEF Row, Known
  <2>3. IsFiniteSet(rows')
    BY <1>2, FS_AddElement DEF IInv
  <2>4. TypeOK'
    <3>1. older' \subseteq {<<r.id, s.id>> : r, s \in rows'}
      BY <1>2, <2>2 DEF IInv, TypeOK
    <3>2. \A r, s \in rows' : r.id = s.id => r = s
      BY <1>2, <2>2 DEF IInv, TypeOK, Known
    <3> QED
      BY <1>2, <2>2, <3>1, <3>2 DEF IInv, TypeOK, Outcomes
  <2>5. Unique'
    <3>1. \A r \in rows : r.list = l => r.position # count
      BY <1>2 DEF Positions, RowsOf
    <3> QED
      BY <1>2, <2>2, <3>1 DEF IInv, Unique
  <2>6. Bounded'
    <3> HIDE DEF new
    <3>1. RowsOf(l)' = RowsOf(l) \cup {new} /\ new \notin RowsOf(l)
      BY <1>2, <2>2 DEF RowsOf
    <3>2. Cardinality(RowsOf(l)') = count + 1
      <4>1. IsFiniteSet(RowsOf(l))
        BY ListSizes DEF IInv
      <4> QED
        BY <3>1, <4>1, FS_AddElement
    <3>3. \A k : k # l => RowsOf(k)' = RowsOf(k)
      BY <1>2, <2>2 DEF RowsOf
    <3> SUFFICES ASSUME NEW r \in rows' PROVE r.position < Cardinality(RowsOf(r.list)')
      BY DEF Bounded, RowsOf
    <3>4. CASE r = new
      BY <2>1, <2>2, <3>2, <3>4
    <3>5. CASE r \in rows /\ r.list = l
      BY <2>1, <3>2, <3>5 DEF IInv, TypeOK, Row, Bounded
    <3>6. CASE r \in rows /\ r.list # l
      BY <3>3, <3>6 DEF IInv, Bounded
    <3> QED
      BY <1>2, <3>4, <3>5, <3>6 DEF new
  <2> QED
    BY <2>3, <2>4, <2>5, <2>6 DEF IInv
<1> QED
  <2>1. count \in Nat
    BY ListSizes DEF IInv
  <2> QED
    BY <1>1, <1>2, <2>1 DEF Enqueue, LimitBounds

LEMMA EditInv ==
  ASSUME IInv, NEW id \in Items, NEW text \in Texts, EditQueue(id, text)
  PROVE  IInv'
<1> DEFINE f == [r \in rows |-> IF r.id = id THEN [r EXCEPT !.text = text] ELSE r]
<1>1. CASE Refuse("unknown")
  BY <1>1, RefuseInv DEF Outcomes
<1>2. CASE rows' = {f[r] : r \in rows} /\ outcome' = "ok" /\ UNCHANGED older
  <2>1. \A r \in rows : /\ f[r] \in Row /\ f[r].id = r.id /\ f[r].list = r.list
                        /\ f[r].position = r.position
    BY DEF IInv, TypeOK, Row
  <2>2. f \in [rows -> rows'] /\ \A t \in rows' : \E r \in rows : f[r] = t
    BY <1>2
  <2> HIDE DEF f
  <2>3. /\ IsFiniteSet(rows')
        /\ \A r, s \in rows' : r.id = s.id => r = s
        /\ \A l : Cardinality(RowsOf(l)') = Cardinality(RowsOf(l) \cap rows)
    <3>1. rows \in SUBSET rows /\ IsFiniteSet(rows) /\ \A r, s \in rows : r.id = s.id => r = s
      BY DEF IInv, TypeOK
    <3> QED
      BY <2>1, <2>2, <3>1, Rewriting, ZenonT(30)
  <2>4. \A l : RowsOf(l) \cap rows = RowsOf(l)
    BY DEF RowsOf
  <2>5. TypeOK'
    BY <1>2, <2>1, <2>3 DEF IInv, TypeOK, Outcomes
  <2>6. Unique'
    BY <1>2, <2>1 DEF IInv, Unique
  <2>7. Bounded'
    <3> SUFFICES ASSUME NEW r \in rows' PROVE r.position < Cardinality(RowsOf(r.list)')
      BY DEF Bounded, RowsOf
    <3> QED
      BY <1>2, <2>1, <2>3, <2>4 DEF IInv, Bounded
  <2> QED
    BY <2>3, <2>5, <2>6, <2>7 DEF IInv
<1> QED
  BY <1>1, <1>2 DEF EditQueue
-----------------------------------------------------------------------------
\* The places _move_queue gives: different ones, below the number of rows.
LEMMA PlacesFit ==
  ASSUME IInv, NEW id, Known(id), NEW place \in Nat
  PROVE  LET S == RowsOf(RowOf(id).list) IN
         /\ \A r \in S : Place(r, id, place) \in Nat /\ Place(r, id, place) < Cardinality(S)
         /\ \A r, s \in S : Place(r, id, place) = Place(s, id, place) => r = s
<1> DEFINE S == RowsOf(RowOf(id).list)
           moved == RowOf(id)
           others == {s \in S : s.id # id}
           before(r) == {s \in others : s.position < r.position}
           rank(r) == Cardinality(before(r))
           n == Cardinality(others)
           at == IF place < n THEN place ELSE n
<1>1. moved \in rows /\ moved.id = id /\ moved \in S
  BY TheRow DEF IInv, RowsOf
<1>2. \A r \in S : r \in rows /\ r.list = moved.list /\ r.position \in Nat
  BY DEF IInv, TypeOK, Row, RowsOf
<1>3. IsFiniteSet(S) /\ IsFiniteSet(others) /\ n \in Nat
  <2>1. IsFiniteSet(S)
    BY ListSizes DEF IInv
  <2>2. others \in SUBSET S
    OBVIOUS
  <2> QED
    BY <2>1, <2>2, FS_Subset, FS_CardinalityType
<1>4. Cardinality(S) = n + 1
  <2>1. S = others \cup {moved} /\ moved \notin others
    BY <1>1, <1>2 DEF IInv, TypeOK
  <2> QED
    BY <1>3, <2>1, FS_AddElement
<1>5. \A r \in S : IsFiniteSet(before(r)) /\ rank(r) \in Nat
  BY <1>3, FS_Subset, FS_CardinalityType
<1>6. \A r \in others : rank(r) < n
  <2> TAKE r \in others
  <2>1. before(r) \in SUBSET others /\ r \notin before(r)
    BY <1>2
  <2>2. Cardinality(before(r)) <= n /\ (n = Cardinality(before(r)) => others = before(r))
    BY <1>3, <2>1, FS_Subset
  <2> QED
    BY <1>3, <1>5, <2>1, <2>2
<1>7. \A r, s \in others : r.position < s.position => rank(r) < rank(s)
  <2> SUFFICES ASSUME NEW r \in others, NEW s \in others, r.position < s.position
               PROVE  rank(r) < rank(s)
    OBVIOUS
  <2>1. before(r) \in SUBSET before(s) /\ r \in before(s) /\ r \notin before(r)
    BY <1>2
  <2>2. IsFiniteSet(before(s)) /\ rank(r) \in Nat /\ rank(s) \in Nat
    BY <1>5
  <2>3. rank(r) <= rank(s) /\ (rank(s) = rank(r) => before(s) = before(r))
    BY <2>1, <2>2, FS_Subset
  <2> QED
    BY <2>1, <2>2, <2>3
<1>8. \A r, s \in others : rank(r) = rank(s) => r = s
  <2> SUFFICES ASSUME NEW r \in others, NEW s \in others, rank(r) = rank(s)
               PROVE  r = s
    OBVIOUS
  <2>1. rank(r) \in Nat
    BY <1>5
  <2>2. ~(r.position < s.position) /\ ~(s.position < r.position)
    BY <1>7, <2>1
  <2>3. r.position = s.position
    BY <1>2, <2>2
  <2> QED
    BY <1>2, <2>3 DEF IInv, Unique
<1>9. \A r \in S : Place(r, id, place) =
         IF r.id = id THEN at ELSE IF rank(r) < at THEN rank(r) ELSE rank(r) + 1
  <2>1. \A r \in S : RowsOf(r.list) = S
    BY <1>2
  <2> QED
    BY <2>1 DEF Place
<1>10. \A r \in S : r.id # id => r \in others
  OBVIOUS
<1>11. at \in Nat /\ at <= n
  BY <1>3
<1>12. ASSUME NEW r \in S
       PROVE  Place(r, id, place) \in Nat /\ Place(r, id, place) < Cardinality(S)
  <2>1. rank(r) \in Nat /\ (r.id # id => rank(r) < n)
    BY <1>5, <1>6, <1>10
  <2> HIDE DEF others, rank, at, n, S
  <2> QED
    BY <1>3, <1>4, <1>9, <1>11, <2>1
<1>13. ASSUME NEW r \in S, NEW s \in S, Place(r, id, place) = Place(s, id, place)
       PROVE  r = s
  <2>1. rank(r) \in Nat /\ rank(s) \in Nat
    BY <1>5
  <2>2. CASE r.id = id /\ s.id = id
    BY <1>2, <2>2 DEF IInv, TypeOK
  <2>3. CASE r.id # id /\ s.id # id
    <3>1. rank(r) = rank(s)
      <4> HIDE DEF others, rank, at, n, S
      <4> QED
        BY <1>9, <1>11, <1>13, <2>1, <2>3
    <3> QED
      BY <1>8, <1>10, <2>3, <3>1
  <2>4. CASE (r.id = id) # (s.id = id)
    <3> HIDE DEF others, rank, at, n, S
    <3> QED
      BY <1>9, <1>11, <1>13, <2>1, <2>4
  <2> QED
    BY <2>2, <2>3, <2>4
<1> QED
  BY <1>12, <1>13

LEMMA MoveInv ==
  ASSUME IInv, NEW id \in Items, NEW place \in Nat, MoveQueue(id, place)
  PROVE  IInv'
<1> DEFINE l == RowOf(id).list
           f == [r \in rows |-> IF r.list = l THEN [r EXCEPT !.position = Place(r, id, place)]
                                ELSE r]
<1>1. CASE Refuse("unknown")
  BY <1>1, RefuseInv DEF Outcomes
<1>2. CASE Known(id) /\ rows' = {f[r] : r \in rows} /\ outcome' = "ok" /\ UNCHANGED older
  <2>1. /\ \A r \in rows : r.list = l => /\ Place(r, id, place) \in Nat
                                         /\ Place(r, id, place) < Cardinality(RowsOf(l))
        /\ \A r, s \in rows : r.list = l /\ s.list = l
                              /\ Place(r, id, place) = Place(s, id, place) => r = s
    BY <1>2, PlacesFit DEF RowsOf
  <2>2. \A r \in rows :
           /\ f[r] \in Row /\ f[r].id = r.id /\ f[r].list = r.list
           /\ f[r].position = IF r.list = l THEN Place(r, id, place) ELSE r.position
    BY <2>1 DEF IInv, TypeOK, Row
  <2>3. f \in [rows -> rows'] /\ \A t \in rows' : \E r \in rows : f[r] = t
    BY <1>2
  <2> HIDE DEF f, l
  <2>4. /\ IsFiniteSet(rows')
        /\ \A r, s \in rows' : r.id = s.id => r = s
        /\ \A k : Cardinality(RowsOf(k)') = Cardinality(RowsOf(k) \cap rows)
    <3>1. rows \in SUBSET rows /\ IsFiniteSet(rows) /\ \A r, s \in rows : r.id = s.id => r = s
      BY DEF IInv, TypeOK
    <3> QED
      BY <2>2, <2>3, <3>1, Rewriting, Zenon
  <2>5. \A k : RowsOf(k) \cap rows = RowsOf(k)
    BY DEF RowsOf
  <2>6. TypeOK'
    BY <1>2, <2>2, <2>4 DEF IInv, TypeOK, Outcomes
  <2>7. Unique'
    BY <1>2, <2>1, <2>2 DEF IInv, Unique
  <2>8. Bounded'
    <3> SUFFICES ASSUME NEW r \in rows' PROVE r.position < Cardinality(RowsOf(r.list)')
      BY DEF Bounded, RowsOf
    <3> QED
      BY <1>2, <2>1, <2>2, <2>4, <2>5 DEF IInv, Bounded
  <2> QED
    BY <2>4, <2>6, <2>7, <2>8 DEF IInv
<1> QED
  BY <1>1, <1>2 DEF MoveQueue

LEMMA DeleteInv ==
  ASSUME IInv, NEW id \in Items, DeleteQueue(id)
  PROVE  IInv'
<1> DEFINE gone == RowOf(id)
           kept == rows \ {gone}
           f == [r \in kept |-> Shifted(r, gone)]
<1>1. CASE Refuse("unknown") \/ Refuse("integrity")
  BY <1>1, RefuseInv DEF Outcomes
<1>2. CASE /\ Known(id) /\ rows' = {f[r] : r \in kept}
           /\ older' = {p \in older : id \notin {p[1], p[2]}}
           /\ outcome' = "ok"
  <2>1. gone \in rows /\ gone.id = id /\ kept \in SUBSET rows
    BY <1>2, TheRow DEF IInv
  <2>2. \A r \in rows : r \in Row /\ r.position \in Nat
    BY DEF IInv, TypeOK, Row
  <2>3. \A r \in kept :
           /\ f[r] \in Row /\ f[r].id = r.id /\ f[r].list = r.list
           /\ f[r].position = IF r.list = gone.list /\ r.position > gone.position
                              THEN r.position - 1 ELSE r.position
    BY <2>1, <2>2 DEF Shifted, Row
  <2>4. f \in [kept -> rows'] /\ \A t \in rows' : \E r \in kept : f[r] = t
    BY <1>2
  <2>5. \A r \in kept : r.list = gone.list => r.position # gone.position
    BY <2>1 DEF IInv, Unique
  <2>6. \A r \in kept : r.id # id
    BY <2>1 DEF IInv, TypeOK
  <2> HIDE DEF f, gone
  <2>7. /\ IsFiniteSet(rows')
        /\ \A r, s \in rows' : r.id = s.id => r = s
        /\ \A k : Cardinality(RowsOf(k)') = Cardinality(RowsOf(k) \cap kept)
    <3> HIDE DEF kept
    <3>1. IsFiniteSet(rows) /\ \A r, s \in rows : r.id = s.id => r = s
      BY DEF IInv, TypeOK
    <3> QED
      BY <2>1, <2>3, <2>4, <3>1, Rewriting, Zenon
  <2>8. TypeOK'
    <3>1. older' \subseteq {<<r.id, s.id>> : r, s \in rows'}
      <4> SUFFICES ASSUME NEW p \in older' PROVE p \in {<<r.id, s.id>> : r, s \in rows'}
        OBVIOUS
      <4>1. PICK r \in rows, s \in rows : p = <<r.id, s.id>>
        BY <1>2 DEF IInv, TypeOK
      <4>2. r \in kept /\ s \in kept
        BY <1>2, <2>1, <4>1
      <4> QED
        BY <1>2, <2>3, <4>1, <4>2
    <3> QED
      BY <1>2, <2>3, <2>7, <3>1 DEF IInv, TypeOK, Outcomes
  <2>9. Unique'
    <3> SUFFICES ASSUME NEW r \in kept, NEW s \in kept, f[r].list = f[s].list,
                        f[r].position = f[s].position
                 PROVE  r = s
      BY <1>2 DEF Unique
    <3>1. r.list = s.list /\ r.position = s.position
      BY <2>1, <2>2, <2>3, <2>5
    <3> QED
      BY <2>1, <3>1 DEF IInv, Unique
  <2>10. Bounded'
    <3> SUFFICES ASSUME NEW r \in kept
                 PROVE  f[r].position < Cardinality(RowsOf(r.list)')
      BY <1>2, <2>3 DEF Bounded, RowsOf
    <3>1. CASE r.list = gone.list
      <4>1. /\ RowsOf(r.list) \cap kept = RowsOf(r.list) \ {gone} /\ gone \in RowsOf(r.list)
        BY <2>1, <3>1 DEF RowsOf
      <4>2. /\ IsFiniteSet(RowsOf(r.list)) /\ Cardinality(RowsOf(r.list)) \in Nat
        BY ListSizes DEF IInv
      <4>3. Cardinality(RowsOf(r.list)') = Cardinality(RowsOf(r.list)) - 1
        BY <2>7, <4>1, <4>2, FS_RemoveElement
      <4>4. /\ r.position < Cardinality(RowsOf(r.list))
            /\ gone.position < Cardinality(RowsOf(r.list))
        BY <2>1, <3>1 DEF IInv, Bounded
      <4> QED
        BY <2>1, <2>2, <2>3, <2>5, <3>1, <4>2, <4>3, <4>4
    <3>2. CASE r.list # gone.list
      <4>1. RowsOf(r.list) \cap kept = RowsOf(r.list)
        BY <3>2 DEF RowsOf
      <4> QED
        BY <2>1, <2>3, <2>7, <3>2, <4>1 DEF IInv, Bounded
    <3> QED
      BY <3>1, <3>2
  <2> QED
    BY <2>7, <2>8, <2>9, <2>10 DEF IInv
<1> QED
  BY <1>1, <1>2 DEF DeleteQueue

LEMMA ClearInv ==
  ASSUME IInv, NEW l \in Lists, ClearQueue(l)
  PROVE  IInv'
<1>1. rows' = rows \ RowsOf(l) /\ outcome' = "ok"
  BY DEF ClearQueue
<1>2. \A r \in rows' : r \in rows /\ r.list # l /\ RowsOf(r.list)' = RowsOf(r.list)
  BY <1>1 DEF RowsOf
<1>3. IsFiniteSet(rows')
  BY <1>1, FS_Subset DEF IInv
<1>4. TypeOK'
  <2>1. older' \subseteq {<<r.id, s.id>> : r, s \in rows'}
    <3> SUFFICES ASSUME NEW p \in older' PROVE p \in {<<r.id, s.id>> : r, s \in rows'}
      OBVIOUS
    <3>1. PICK r \in rows, s \in rows : p = <<r.id, s.id>>
      BY DEF ClearQueue, IInv, TypeOK
    <3>2. r \in rows' /\ s \in rows'
      BY <1>1, <3>1 DEF ClearQueue
    <3> QED
      BY <3>1, <3>2
  <2> QED
    BY <1>1, <1>2, <2>1 DEF IInv, TypeOK, Outcomes
<1>5. Unique'
  BY <1>2 DEF IInv, Unique
<1>6. Bounded'
  <2> SUFFICES ASSUME NEW r \in rows' PROVE r.position < Cardinality(RowsOf(r.list)')
    BY DEF Bounded, RowsOf
  <2> QED
    BY <1>2 DEF IInv, Bounded
<1> QED
  BY <1>3, <1>4, <1>5, <1>6 DEF IInv

LEMMA StepInv == ASSUME LimitBounds PROVE IInv /\ [Next]_vars => IInv'
<1> SUFFICES ASSUME IInv, [Next]_vars PROVE IInv'
  OBVIOUS
<1>1. ASSUME NEW id \in Items, NEW l \in Lists, NEW text \in Texts, Enqueue(id, l, text)
      PROVE  IInv'
  BY <1>1, EnqueueInv
<1>2. ASSUME NEW id \in Items, NEW place \in 0..Limit, MoveQueue(id, place) PROVE IInv'
  BY <1>2, MoveInv DEF LimitBounds
<1>3. CASE UNCHANGED vars
  BY <1>3 DEF vars, IInv, TypeOK, Unique, Bounded, RowsOf
<1> QED
  BY <1>1, <1>2, <1>3, EditInv, DeleteInv, ClearInv DEF Next

LEMMA InitInv == Init => IInv
  BY FS_EmptySet DEF Init, IInv, TypeOK, Unique, Bounded, Outcomes

\* Every reachable table satisfies the inductive invariant.
THEOREM Invariance == ASSUME LimitBounds PROVE Spec => []IInv
<1>1. Init => IInv
  BY InitInv
<1>2. IInv /\ [Next]_vars => IInv'
  BY StepInv
<1> QED
  BY <1>1, <1>2, PTL DEF Spec

\* Whatever is enqueued, edited, moved, deleted and cleared, in any order, the
\* n prompts of a list occupy exactly the positions 0 to n-1 and the table keeps
\* its keys: for any number of items and lists.
THEOREM QueueHasNoHoles == ASSUME LimitBounds PROVE Spec => []QueueIsDense
<1>1. IInv => QueueIsDense
  BY NoHoles DEF QueueIsDense, DensePositions, IInv
<1> QED
  BY <1>1, Invariance, PTL
-----------------------------------------------------------------------------
(* Refinement: what a reader of a list sees.                               *)

Item(r) == [id |-> r.id, text |-> r.text]

\* q is the list l in the order of its positions.
Reads(q, l) ==
    /\ q \in Seq(Promise!QueuedItem) /\ Len(q) = Cardinality(RowsOf(l))
    /\ \A r \in RowsOf(l) : q[r.position + 1] = Item(r)

\* ListQueue is, and nothing else is.
ReadOneWay ==
    \A l \in Lists : Reads(ListQueue(l), l) /\ \A q : Reads(q, l) => q = ListQueue(l)

LEMMA RankIsPosition ==
  ASSUME IInv, NEW l, NEW r \in RowsOf(l)
  PROVE  /\ IsFiniteSet({s \in RowsOf(l) : s.position < r.position})
         /\ Cardinality({s \in RowsOf(l) : s.position < r.position}) = r.position
<1> DEFINE S == RowsOf(l)
           P == {s \in S : s.position < r.position}
           f == [s \in P |-> s.position]
           n == Cardinality(S)
<1>1. IsFiniteSet(S) /\ n \in Nat /\ Positions(l) = 0 .. n - 1
  BY ListSizes, NoHoles DEF IInv
<1>2. \A s \in S : s \in rows /\ s.list = l /\ s.position \in Nat
  BY DEF IInv, TypeOK, Row, RowsOf
<1>3. r.position \in 0 .. n - 1
  BY <1>1 DEF Positions
<1>4. \A j \in 0 .. r.position - 1 : \E s \in P : s.position = j
  <2> TAKE j \in 0 .. r.position - 1
  <2>1. j \in 0 .. n - 1 /\ j < r.position
    BY <1>1, <1>3
  <2>2. j \in Positions(l)
    BY <1>1, <2>1
  <2> QED
    BY <2>1, <2>2 DEF Positions
<1>5. f \in Bijection(P, 0 .. r.position - 1)
  <2>1. \A s \in P : s.position \in 0 .. r.position - 1
    BY <1>2
  <2>2. \A s, t \in P : s.position = t.position => s = t
    BY <1>2 DEF IInv, Unique
  <2> HIDE DEF P
  <2> QED
    BY <1>4, <2>1, <2>2 DEF Bijection, Injection, Surjection, IsInjective
<1>6. IsFiniteSet(P)
  BY <1>1, FS_Subset
<1>7. Cardinality(P) = Cardinality(0 .. r.position - 1)
  <2> HIDE DEF P, f
  <2> QED
    BY <1>5, <1>6, FS_Bijection DEF ExistsBijection
<1>8. Cardinality(0 .. r.position - 1) = r.position
  <2>1. r.position \in Nat
    BY <1>2
  <2> QED
    BY <2>1, FS_Interval
<1> QED
  BY <1>6, <1>7, <1>8

LEMMA ReadingIsOne == IInv => ReadOneWay
<1> SUFFICES ASSUME IInv, NEW l \in Lists
             PROVE  Reads(ListQueue(l), l) /\ \A q : Reads(q, l) => q = ListQueue(l)
  BY DEF ReadOneWay
<1> DEFINE S == RowsOf(l)
           n == Cardinality(S)
           row(i) == CHOOSE r \in S : Cardinality({s \in S : s.position < r.position}) = i - 1
<1>1. n \in Nat /\ Positions(l) = 0 .. n - 1
  BY ListSizes, NoHoles DEF IInv
<1>2. \A r \in S : r \in rows /\ r.list = l /\ r \in Row /\ r.position \in Nat
  BY DEF IInv, TypeOK, Row, RowsOf
<1>3. \A i \in 1 .. n : row(i) \in S /\ row(i).position = i - 1
  <2> TAKE i \in 1 .. n
  <2>1. i - 1 \in Positions(l)
    BY <1>1
  <2>2. PICK r \in S : r.position = i - 1
    BY <2>1 DEF Positions
  <2>3. \A s \in S : Cardinality({t \in S : t.position < s.position}) = s.position
    BY RankIsPosition
  <2>4. Cardinality({s \in S : s.position < r.position}) = i - 1
    BY <2>2, <2>3
  <2> HIDE DEF S
  <2>5. row(i) \in S /\ Cardinality({s \in S : s.position < row(i).position}) = i - 1
    BY <2>4
  <2> QED
    BY <2>3, <2>5
<1>4. ListQueue(l) = [i \in 1 .. n |-> Item(row(i))]
  BY DEF ListQueue, Item
<1>5. \A r \in S : r.position + 1 \in 1 .. n /\ row(r.position + 1) = r
  <2> TAKE r \in S
  <2>1. r.position \in 0 .. n - 1
    BY <1>1 DEF Positions
  <2>2. r.position + 1 \in 1 .. n
    BY <1>1, <2>1
  <2>3. PICK i \in 1 .. n : i = r.position + 1
    BY <2>2
  <2>4. row(i) \in S /\ row(i).position = i - 1
    BY <1>3
  <2> HIDE DEF row
  <2>5. row(i) = r
    BY <1>2, <2>3, <2>4 DEF IInv, Unique
  <2> QED
    BY <2>2, <2>3, <2>5
<1>6. \A i \in 1 .. n : Item(row(i)) \in Promise!QueuedItem
  <2> HIDE DEF row
  <2> QED
    BY <1>2, <1>3 DEF Item, Row, Promise!QueuedItem
<1> HIDE DEF row, n
<1>7. ListQueue(l) \in Seq(Promise!QueuedItem) /\ Len(ListQueue(l)) = n
  BY <1>1, <1>4, <1>6
<1>8. Reads(ListQueue(l), l)
  BY <1>4, <1>5, <1>7 DEF Reads, n
<1>9. ASSUME NEW q, Reads(q, l) PROVE q = ListQueue(l)
  <2>1. q \in Seq(Promise!QueuedItem) /\ Len(q) = n
    BY <1>9 DEF Reads, n
  <2>2. \A i \in 1 .. n : q[i] = ListQueue(l)[i]
    <3> TAKE i \in 1 .. n
    <3>1. row(i) \in S /\ row(i).position + 1 = i
      BY <1>1, <1>3
    <3> QED
      BY <1>4, <1>9, <3>1 DEF Reads
  <2> QED
    BY <1>7, <2>1, <2>2, SeqEqual
<1> QED
  BY <1>8, <1>9

\* A step on one list, and what is read of it afterwards.
LEMMA Becomes ==
  ASSUME IInv, ReadOneWay, ReadOneWay', NEW l \in Lists, NEW q, Reads(q, l)',
         \A k \in Lists : k # l => RowsOf(k)' = RowsOf(k)
  PROVE  [k \in Lists |-> ListQueue(k)]' = [[k \in Lists |-> ListQueue(k)] EXCEPT ![l] = q]
<1>1. ListQueue(l)' = q
  BY DEF ReadOneWay
<1>2. ASSUME NEW k \in Lists, k # l PROVE ListQueue(k)' = ListQueue(k)
  <2>1. Reads(ListQueue(k), k) /\ RowsOf(k)' = RowsOf(k)
    BY <1>2 DEF ReadOneWay
  <2>2. \A p : Reads(p, k)' => p = ListQueue(k)'
    BY DEF ReadOneWay
  <2> QED
    BY <2>1, <2>2 DEF Reads
<1> QED
  BY <1>1, <1>2
-----------------------------------------------------------------------------
LEMMA Removed ==
  ASSUME NEW T, NEW s \in Seq(T), NEW i \in 1 .. Len(s)
  PROVE  LET rest == Promise!RemoveAt(s, i) IN
         /\ rest \in Seq(T) /\ Len(rest) = Len(s) - 1
         /\ \A j \in 1 .. Len(s) - 1 : rest[j] = IF j < i THEN s[j] ELSE s[j + 1]
<1> DEFINE a == SubSeq(s, 1, i - 1)
           b == SubSeq(s, i + 1, Len(s))
<1>1. Len(s) \in Nat /\ \A j \in 1 .. Len(s) : s[j] \in T
  OBVIOUS
<1>2. a \in Seq(T) /\ Len(a) = i - 1 /\ \A j \in 1 .. i - 1 : a[j] = s[j]
  <2>1. \A j \in 1 .. i - 1 : s[j] \in T
    BY <1>1
  <2>2. 1 \in Int /\ i - 1 \in Int
    BY <1>1
  <2>3. /\ a \in Seq(T) /\ Len(a) = IF 1 <= i - 1 THEN i - 1 - 1 + 1 ELSE 0
        /\ \A j \in 1 .. i - 1 - 1 + 1 : a[j] = s[1 + j - 1]
    BY <2>1, <2>2, SubSeqProperties
  <2> HIDE DEF a
  <2> QED
    BY <1>1, <2>3
<1>3. b \in Seq(T) /\ Len(b) = Len(s) - i /\ \A j \in 1 .. Len(s) - i : b[j] = s[i + j]
  <2>1. \A j \in i + 1 .. Len(s) : s[j] \in T
    BY <1>1
  <2>2. i + 1 \in Int /\ Len(s) \in Int
    BY <1>1
  <2>3. /\ b \in Seq(T) /\ Len(b) = IF i + 1 <= Len(s) THEN Len(s) - (i + 1) + 1 ELSE 0
        /\ \A j \in 1 .. Len(s) - (i + 1) + 1 : b[j] = s[i + 1 + j - 1]
    BY <2>1, <2>2, SubSeqProperties
  <2> HIDE DEF b
  <2> QED
    BY <1>1, <2>3
<1>4. Promise!RemoveAt(s, i) = a \o b
  BY DEF Promise!RemoveAt
<1> HIDE DEF a, b
<1>5. /\ a \o b \in Seq(T) /\ Len(a \o b) = Len(a) + Len(b)
      /\ \A j \in 1 .. Len(a) + Len(b) :
            (a \o b)[j] = IF j <= Len(a) THEN a[j] ELSE b[j - Len(a)]
  BY <1>2, <1>3, ConcatProperties
<1>6. ASSUME NEW j \in 1 .. Len(s) - 1 PROVE (a \o b)[j] = IF j < i THEN s[j] ELSE s[j + 1]
  <2>1. CASE j < i
    BY <1>1, <1>2, <1>3, <1>5, <2>1
  <2>2. CASE j >= i
    <3>1. (a \o b)[j] = b[j - (i - 1)] /\ j - (i - 1) \in 1 .. Len(s) - i
      BY <1>1, <1>2, <1>3, <1>5, <2>2
    <3>2. b[j - (i - 1)] = s[i + (j - (i - 1))]
      BY <1>3, <3>1
    <3>3. i + (j - (i - 1)) = j + 1
      BY <1>1
    <3> QED
      BY <1>1, <2>2, <3>1, <3>2, <3>3
  <2>3. j < i \/ (j >= i /\ ~(j < i))
    BY <1>1
  <2> QED
    BY <2>1, <2>2, <2>3
<1>7. Len(a \o b) = Len(s) - 1
  BY <1>1, <1>2, <1>3, <1>5
<1> QED
  BY <1>4, <1>5, <1>6, <1>7

LEMMA Inserted ==
  ASSUME NEW T, NEW s \in Seq(T), NEW i \in 1 .. Len(s) + 1, NEW e \in T
  PROVE  LET more == Promise!InsertAt(s, i, e) IN
         /\ more \in Seq(T) /\ Len(more) = Len(s) + 1
         /\ \A j \in 1 .. Len(s) + 1 :
               more[j] = IF j < i THEN s[j] ELSE IF j = i THEN e ELSE s[j - 1]
<1> DEFINE a == SubSeq(s, 1, i - 1)
           b == SubSeq(s, i, Len(s))
           c == <<e>>
<1>1. Len(s) \in Nat /\ \A j \in 1 .. Len(s) : s[j] \in T
  OBVIOUS
<1>2. a \in Seq(T) /\ Len(a) = i - 1 /\ \A j \in 1 .. i - 1 : a[j] = s[j]
  <2>1. \A j \in 1 .. i - 1 : s[j] \in T
    BY <1>1
  <2>2. 1 \in Int /\ i - 1 \in Int
    BY <1>1
  <2>3. /\ a \in Seq(T) /\ Len(a) = IF 1 <= i - 1 THEN i - 1 - 1 + 1 ELSE 0
        /\ \A j \in 1 .. i - 1 - 1 + 1 : a[j] = s[1 + j - 1]
    BY <2>1, <2>2, SubSeqProperties
  <2> HIDE DEF a
  <2> QED
    BY <1>1, <2>3
<1>3. /\ b \in Seq(T) /\ Len(b) = Len(s) - i + 1
      /\ \A j \in 1 .. Len(s) - i + 1 : b[j] = s[i + j - 1]
  <2>1. \A j \in i .. Len(s) : s[j] \in T
    BY <1>1
  <2>2. i \in Int /\ Len(s) \in Int
    BY <1>1
  <2>3. /\ b \in Seq(T) /\ Len(b) = IF i <= Len(s) THEN Len(s) - i + 1 ELSE 0
        /\ \A j \in 1 .. Len(s) - i + 1 : b[j] = s[i + j - 1]
    BY <2>1, <2>2, SubSeqProperties
  <2> HIDE DEF b
  <2> QED
    BY <1>1, <2>3
<1>4. c \in Seq(T) /\ Len(c) = 1 /\ c[1] = e
  OBVIOUS
<1>5. Promise!InsertAt(s, i, e) = (a \o c) \o b
  BY DEF Promise!InsertAt
<1> HIDE DEF a, b, c
<1> DEFINE d == a \o c
<1>6. d \in Seq(T) /\ Len(d) = i /\ \A j \in 1 .. i : d[j] = IF j < i THEN s[j] ELSE e
  <2>1. /\ d \in Seq(T) /\ Len(d) = Len(a) + Len(c)
        /\ \A j \in 1 .. Len(a) + Len(c) : d[j] = IF j <= Len(a) THEN a[j] ELSE c[j - Len(a)]
    BY <1>2, <1>4, ConcatProperties
  <2> HIDE DEF d
  <2> QED
    BY <1>1, <1>2, <1>4, <2>1
<1> HIDE DEF d
<1>7. /\ d \o b \in Seq(T) /\ Len(d \o b) = Len(d) + Len(b)
      /\ \A j \in 1 .. Len(d) + Len(b) :
            (d \o b)[j] = IF j <= Len(d) THEN d[j] ELSE b[j - Len(d)]
  BY <1>3, <1>6, ConcatProperties
<1>8. Promise!InsertAt(s, i, e) = d \o b
  BY <1>5 DEF d
<1> QED
  BY <1>1, <1>3, <1>6, <1>7, <1>8

\* The place of every row in terms of the positions before the move.
LEMMA PlaceByPosition ==
  ASSUME IInv, NEW id, Known(id), NEW place \in Nat, NEW r \in RowsOf(RowOf(id).list)
  PROVE  LET from == RowOf(id).position
             last == Cardinality(RowsOf(RowOf(id).list)) - 1
             at   == IF place < last THEN place ELSE last
             rank == IF r.position < from THEN r.position ELSE r.position - 1
         IN  /\ r.id = id => Place(r, id, place) = at
             /\ r.id # id => Place(r, id, place) = IF rank < at THEN rank ELSE rank + 1
<1> DEFINE moved == RowOf(id)
           S == RowsOf(moved.list)
           others == {s \in S : s.id # id}
           P == {s \in S : s.position < r.position}
           before == {s \in others : s.position < r.position}
<1>1. moved \in rows /\ moved.id = id /\ moved \in S
  BY TheRow DEF IInv, RowsOf
<1>2. \A s \in S : s \in rows /\ s.list = moved.list /\ s.position \in Nat
  BY DEF IInv, TypeOK, Row, RowsOf
<1>3. IsFiniteSet(S) /\ Cardinality(S) \in Nat
  BY ListSizes DEF IInv
<1>4. others = S \ {moved}
  BY <1>1, <1>2 DEF IInv, TypeOK
<1>5. Cardinality(others) = Cardinality(S) - 1
  BY <1>1, <1>3, <1>4, FS_RemoveElement, ZenonT(30)
<1>6. IsFiniteSet(P) /\ Cardinality(P) = r.position
  BY RankIsPosition
<1>7. r.id # id => Cardinality(before) =
                      IF r.position < moved.position THEN r.position ELSE r.position - 1
  <2> SUFFICES ASSUME r.id # id
               PROVE  Cardinality(before) =
                        IF r.position < moved.position THEN r.position ELSE r.position - 1
    OBVIOUS
  <2>1. r.position # moved.position
    BY <1>1, <1>2 DEF IInv, Unique
  <2>2. CASE r.position < moved.position
    <3>1. before = P
      BY <1>1, <1>2, <1>4, <2>2
    <3> QED
      BY <1>6, <2>2, <3>1
  <2>3. CASE moved.position < r.position
    <3>1. before = P \ {moved} /\ moved \in P
      BY <1>1, <1>4, <2>3
    <3>2. Cardinality(before) = r.position - 1
      BY <1>6, <3>1, FS_RemoveElement, ZenonT(30)
    <3> QED
      BY <1>1, <1>2, <2>3, <3>2
  <2> QED
    BY <1>1, <1>2, <2>1, <2>2, <2>3
<1>8. RowsOf(r.list) = S
  BY <1>2
<1>9. Place(r, id, place) =
         LET at == IF place < Cardinality(others) THEN place ELSE Cardinality(others)
         IN  IF r.id = id THEN at
             ELSE IF Cardinality(before) < at THEN Cardinality(before)
                  ELSE Cardinality(before) + 1
  BY <1>8 DEF Place
<1> HIDE DEF others, before, moved, S
<1> QED
  BY <1>5, <1>7, <1>9 DEF moved, S
-----------------------------------------------------------------------------
(* The operations, as the reader of a list sees them.                      *)

Reader == [k \in Lists |-> ListQueue(k)]

\* A list that is read, and what stands at a row's place in it.
LEMMA ReadFacts ==
  ASSUME IInv, ReadOneWay, NEW l \in Lists
  PROVE  /\ ListQueue(l) \in Seq(Promise!QueuedItem)
         /\ Len(ListQueue(l)) = Cardinality(RowsOf(l)) /\ Cardinality(RowsOf(l)) \in Nat
         /\ \A r \in RowsOf(l) : /\ r.position \in Nat /\ r.position < Cardinality(RowsOf(l))
                                 /\ r.position + 1 \in 1 .. Len(ListQueue(l))
                                 /\ ListQueue(l)[r.position + 1] = Item(r)
         /\ \A i \in 1 .. Len(ListQueue(l)) : \E r \in RowsOf(l) : r.position + 1 = i
<1>1. /\ ListQueue(l) \in Seq(Promise!QueuedItem)
      /\ Len(ListQueue(l)) = Cardinality(RowsOf(l))
      /\ \A r \in RowsOf(l) : ListQueue(l)[r.position + 1] = Item(r)
  BY DEF ReadOneWay, Reads
<1>2. Cardinality(RowsOf(l)) \in Nat /\ Positions(l) = 0 .. Cardinality(RowsOf(l)) - 1
  BY ListSizes, NoHoles DEF IInv
<1>3. \A r \in RowsOf(l) : r.position \in 0 .. Cardinality(RowsOf(l)) - 1
  BY <1>2 DEF Positions
<1>4. \A r \in RowsOf(l) : /\ r.position \in Nat /\ r.position < Cardinality(RowsOf(l))
                           /\ r.position + 1 \in 1 .. Cardinality(RowsOf(l))
  BY <1>2, <1>3
<1>5. ASSUME NEW i \in 1 .. Cardinality(RowsOf(l)) PROVE \E r \in RowsOf(l) : r.position + 1 = i
  <2>1. i - 1 \in Positions(l)
    BY <1>2
  <2>2. PICK r \in RowsOf(l) : r.position = i - 1
    BY <2>1 DEF Positions
  <2> QED
    BY <1>2, <2>2
<1> QED
  BY <1>1, <1>2, <1>4, <1>5

LEMMA EnqueueAppends ==
  ASSUME LimitBounds, IInv, IInv', ReadOneWay, ReadOneWay', NEW id \in Items, NEW l \in Lists,
         NEW text \in Texts, Enqueue(id, l, text)
  PROVE  Promise!Append1(l, id, text) \/ UNCHANGED Reader
<1> DEFINE count == Cardinality(RowsOf(l))
           new == [id |-> id, list |-> l, position |-> count, text |-> text]
           s == ListQueue(l)
           e == [id |-> id, text |-> text]
<1>1. /\ s \in Seq(Promise!QueuedItem) /\ Len(s) = count /\ count \in Nat
      /\ \A r \in RowsOf(l) : r.position \in Nat /\ r.position + 1 \in 1 .. count
                              /\ s[r.position + 1] = Item(r)
  BY ReadFacts
<1>2. CASE Refuse("limit") \/ Refuse("integrity")
  BY <1>2 DEF Refuse, Reader, ListQueue, RowsOf
<1>3. CASE /\ count < Limit /\ ~Known(id) /\ count \notin Positions(l)
           /\ rows' = rows \cup {new}
  <2>1. new.list = l /\ new.position = count /\ Item(new) = e /\ e \in Promise!QueuedItem
    BY DEF Item, Promise!QueuedItem
  <2>2. new \notin rows
    BY <1>3 DEF Known
  <2>3. RowsOf(l)' = RowsOf(l) \cup {new} /\ new \notin RowsOf(l)
    BY <1>3, <2>1, <2>2 DEF RowsOf
  <2>4. \A k \in Lists : k # l => RowsOf(k)' = RowsOf(k)
    BY <1>3, <2>1 DEF RowsOf
  <2>5. Cardinality(RowsOf(l)') = count + 1
    <3>1. IsFiniteSet(RowsOf(l))
      BY ListSizes DEF IInv
    <3> HIDE DEF new
    <3> QED
      BY <2>3, <3>1, FS_AddElement
  <2> HIDE DEF new, s, e
  <2> PICK q : q = Append(s, e)
    OBVIOUS
  <2>6. /\ q \in Seq(Promise!QueuedItem) /\ Len(q) = count + 1 /\ q[count + 1] = e
        /\ \A i \in 1 .. count : q[i] = s[i]
    BY <1>1, <2>1
  <2>7. Reads(q, l)'
    <3>1. \A r \in RowsOf(l)' : q[r.position + 1] = Item(r)
      BY <1>1, <2>1, <2>3, <2>6
    <3>2. q \in Seq(Promise!QueuedItem) /\ Len(q) = Cardinality(RowsOf(l)')
      BY <2>5, <2>6
    <3> QED
      BY <3>1, <3>2 DEF Reads
  <2>8. Reader' = [Reader EXCEPT ![l] = q]
    BY <2>4, <2>7, Becomes DEF Reader
  <2>9. id \notin Promise!AllIds
    <3> SUFFICES ASSUME NEW k \in Lists, NEW i \in DOMAIN ListQueue(k), ListQueue(k)[i].id = id
                 PROVE  FALSE
      BY DEF Promise!AllIds, Promise!IdsOf
    <3>1. i \in 1 .. Len(ListQueue(k))
      BY ReadFacts
    <3>2. PICK r \in RowsOf(k) : r.position + 1 = i
      BY <3>1, ReadFacts
    <3>3. ListQueue(k)[i] = Item(r)
      BY <3>2, ReadFacts
    <3>4. r.id = id
      BY <3>3 DEF Item
    <3> QED
      BY <1>3, <3>4 DEF Known, RowsOf
  <2> QED
    BY <1>1, <1>3, <2>8, <2>9 DEF Promise!Append1, Reader, s, e
<1> QED
  BY <1>1, <1>2, <1>3 DEF Enqueue, LimitBounds

LEMMA EditRetexts ==
  ASSUME IInv, IInv', ReadOneWay, ReadOneWay', NEW id \in Items, NEW text \in Texts,
         EditQueue(id, text)
  PROVE  (\E l \in Lists : Promise!Retext(l, id, text)) \/ UNCHANGED Reader
<1> DEFINE f == [r \in rows |-> IF r.id = id THEN [r EXCEPT !.text = text] ELSE r]
<1>1. CASE Refuse("unknown")
  BY <1>1 DEF Refuse, Reader, ListQueue, RowsOf
<1>2. CASE Known(id) /\ rows' = {f[r] : r \in rows}
  <2>1. PICK was \in rows, l \in Lists : was = RowOf(id) /\ was.id = id /\ l = was.list
    BY <1>2, TheRow DEF IInv, TypeOK, Row
  <2>2. \A r \in rows : r \in Row /\ (r.id = id => r = was)
    BY <2>1 DEF IInv, TypeOK
  <2>3. \A r \in rows : /\ f[r].id = r.id /\ f[r].list = r.list /\ f[r].position = r.position
                        /\ Item(f[r]) = IF r = was THEN [id |-> id, text |-> text] ELSE Item(r)
                        /\ r # was => f[r] = r
    BY <2>1, <2>2 DEF Row, Item
  <2>4. f \in [rows -> rows'] /\ \A t \in rows' : \E r \in rows : f[r] = t
    BY <1>2
  <2> HIDE DEF f
  <2>5. Cardinality(RowsOf(l)') = Cardinality(RowsOf(l))
    <3>1. rows \in SUBSET rows /\ IsFiniteSet(rows) /\ \A r, s \in rows : r.id = s.id => r = s
      BY DEF IInv, TypeOK
    <3>2. \A r \in rows : f[r].id = r.id /\ f[r].list = r.list
      BY <2>3
    <3>3. /\ IsFiniteSet(rows')
          /\ \A r, s \in rows' : r.id = s.id => r = s
          /\ \A k : Cardinality(RowsOf(k)') = Cardinality(RowsOf(k) \cap rows)
      BY <3>1, <2>4, <3>2, Rewriting, Zenon
    <3>4. RowsOf(l) \cap rows = RowsOf(l)
      BY DEF RowsOf
    <3> QED
      BY <3>3, <3>4
  <2>6. \A k \in Lists : k # l => RowsOf(k)' = RowsOf(k)
    <3> SUFFICES ASSUME NEW k \in Lists, k # l PROVE {r \in rows' : r.list = k} = {r \in rows : r.list = k}
      BY DEF RowsOf
    <3> QED
      BY <2>1, <2>3, <2>4
  <2> DEFINE s == ListQueue(l)
             i == was.position + 1
             e == [id |-> id, text |-> text]
  <2>7. was \in RowsOf(l)
    BY <2>1 DEF RowsOf
  <2>8. /\ s \in Seq(Promise!QueuedItem) /\ Len(s) = Cardinality(RowsOf(l)) /\ Len(s) \in Nat
        /\ \A r \in RowsOf(l) : r.position \in Nat /\ r.position + 1 \in 1 .. Len(s)
                                /\ s[r.position + 1] = Item(r)
    BY ReadFacts
  <2>9. i \in 1 .. Len(s) /\ s[i] = Item(was) /\ e \in Promise!QueuedItem
        /\ e = [s[i] EXCEPT !.text = text]
    BY <2>1, <2>7, <2>8 DEF Item, Promise!QueuedItem
  <2> HIDE DEF s, e
  <2> PICK q : q = [s EXCEPT ![i] = e]
    OBVIOUS
  <2>10. q \in Seq(Promise!QueuedItem) /\ Len(q) = Len(s) /\ q[i] = e
         /\ \A j \in 1 .. Len(s) : j # i => q[j] = s[j]
    BY <2>8, <2>9
  <2>11. Reads(q, l)'
    <3>1. \A t \in RowsOf(l)' : q[t.position + 1] = Item(t)
      <4> SUFFICES ASSUME NEW t \in RowsOf(l)' PROVE q[t.position + 1] = Item(t)
        OBVIOUS
      <4>1. PICK r \in rows : f[r] = t
        BY <2>4 DEF RowsOf
      <4>2. r \in RowsOf(l)
        BY <2>3, <4>1 DEF RowsOf
      <4>3. t.position = r.position /\ r.position + 1 \in 1 .. Len(s)
        BY <2>3, <2>8, <4>1, <4>2
      <4>4. CASE r = was
        BY <2>3, <2>10, <4>1, <4>3, <4>4 DEF e
      <4>5. CASE r # was
        <5>1. r.position # was.position
          BY <2>7, <4>2, <4>5 DEF IInv, Unique, RowsOf
        <5>2. r.position + 1 # i
          BY <2>7, <2>8, <4>2, <5>1
        <5> QED
          BY <2>3, <2>8, <2>10, <4>1, <4>2, <4>3, <4>5, <5>2
      <4> QED
        BY <4>4, <4>5
    <3>2. q \in Seq(Promise!QueuedItem) /\ Len(q) = Cardinality(RowsOf(l)')
      BY <2>5, <2>8, <2>10
    <3> QED
      BY <3>1, <3>2 DEF Reads
  <2>12. Reader' = [Reader EXCEPT ![l] = q]
    BY <2>6, <2>11, Becomes DEF Reader
  <2>13. Reader[l] = s /\ DOMAIN Reader[l] = 1 .. Len(s)
    BY <2>8 DEF Reader, s
  <2>14. q = [Reader[l] EXCEPT ![i].text = text]
    BY <2>9, <2>13
  <2>15. Reader' = [Reader EXCEPT ![l][i].text = text]
    BY <2>12, <2>14 DEF Reader
  <2>16. Reader[l][i].id = id
    BY <2>1, <2>9, <2>13 DEF Item
  <2> HIDE DEF i
  <2>17. Promise!Retext(l, id, text)
    BY <2>9, <2>13, <2>15, <2>16 DEF Promise!Retext, Reader
  <2> QED
    BY <2>17
<1> QED
  BY <1>1, <1>2 DEF EditQueue

LEMMA ClearEmpties ==
  ASSUME IInv, IInv', ReadOneWay, ReadOneWay', NEW l \in Lists, ClearQueue(l)
  PROVE  Promise!Empty(l)
<1>1. RowsOf(l)' = {} /\ \A k \in Lists : k # l => RowsOf(k)' = RowsOf(k)
  BY DEF ClearQueue, RowsOf
<1>2. Cardinality(RowsOf(l)') = 0
  BY <1>1, FS_EmptySet
<1>3. Reads(<< >>, l)'
  BY <1>1, <1>2 DEF Reads
<1> QED
  BY <1>1, <1>3, Becomes DEF Promise!Empty

LEMMA DeleteDrops ==
  ASSUME IInv, IInv', ReadOneWay, ReadOneWay', NEW id \in Items, DeleteQueue(id)
  PROVE  (\E l \in Lists : Promise!Drop(l, id)) \/ UNCHANGED Reader
<1> DEFINE gone == RowOf(id)
           kept == rows \ {gone}
           f == [r \in kept |-> Shifted(r, gone)]
<1>1. CASE Refuse("unknown") \/ Refuse("integrity")
  BY <1>1 DEF Refuse, Reader, ListQueue, RowsOf
<1>2. CASE Known(id) /\ rows' = {f[r] : r \in kept}
  <2>1. PICK l \in Lists : gone \in rows /\ gone.id = id /\ l = gone.list
    BY <1>2, TheRow DEF IInv, TypeOK, Row
  <2>2. /\ \A r \in rows : r \in Row /\ r.position \in Nat
        /\ gone \in RowsOf(l) /\ kept \in SUBSET rows
        /\ \A r \in RowsOf(l) : r # gone => r.position # gone.position
    BY <2>1 DEF IInv, TypeOK, Row, RowsOf, Unique
  <2>3. \A r \in kept :
           /\ f[r].id = r.id /\ f[r].list = r.list /\ Item(f[r]) = Item(r)
           /\ f[r].position = IF r.list = l /\ r.position > gone.position
                              THEN r.position - 1 ELSE r.position
           /\ r.list # l => f[r] = r
    BY <2>1, <2>2 DEF Shifted, Row, Item
  <2>4. f \in [kept -> rows'] /\ \A t \in rows' : \E r \in kept : f[r] = t
    BY <1>2
  <2> HIDE DEF f, gone
  <2>5. Cardinality(RowsOf(l)') = Cardinality(RowsOf(l)) - 1
    <3>1. IsFiniteSet(rows) /\ \A r, s \in rows : r.id = s.id => r = s
      BY DEF IInv, TypeOK
    <3>2. \A r \in kept : f[r].id = r.id /\ f[r].list = r.list
      BY <2>3
    <3>3. /\ IsFiniteSet(rows')
          /\ \A r, s \in rows' : r.id = s.id => r = s
          /\ \A k : Cardinality(RowsOf(k)') = Cardinality(RowsOf(k) \cap kept)
      <4> HIDE DEF kept
      <4> QED
        BY <2>2, <3>1, <2>4, <3>2, Rewriting, Zenon
    <3>4. RowsOf(l) \cap kept = RowsOf(l) \ {gone}
      BY DEF RowsOf
    <3>5. Cardinality(RowsOf(l)') = Cardinality(RowsOf(l) \ {gone})
      BY <3>3, <3>4
    <3>6. IsFiniteSet(RowsOf(l))
      BY ListSizes DEF IInv
    <3> QED
      BY <2>2, <3>5, <3>6, FS_RemoveElement
  <2>6. \A k \in Lists : k # l => RowsOf(k)' = RowsOf(k)
    <3> SUFFICES ASSUME NEW k \in Lists, k # l PROVE {r \in rows' : r.list = k} = {r \in rows : r.list = k}
      BY DEF RowsOf
    <3> QED
      BY <2>1, <2>3, <2>4
  <2> DEFINE s == ListQueue(l)
             i == gone.position + 1
  <2>7. /\ s \in Seq(Promise!QueuedItem) /\ Len(s) = Cardinality(RowsOf(l)) /\ Len(s) \in Nat
        /\ \A r \in RowsOf(l) : r.position \in Nat /\ r.position + 1 \in 1 .. Len(s)
                                /\ s[r.position + 1] = Item(r)
    BY ReadFacts
  <2>8. i \in 1 .. Len(s) /\ s[i] = Item(gone)
    BY <2>2, <2>7
  <2> HIDE DEF s
  <2> PICK q : q = Promise!RemoveAt(s, i)
    OBVIOUS
  <2>9. /\ q \in Seq(Promise!QueuedItem) /\ Len(q) = Len(s) - 1
        /\ \A j \in 1 .. Len(s) - 1 : q[j] = IF j < i THEN s[j] ELSE s[j + 1]
    BY <2>7, <2>8, Removed
  <2>10. Reads(q, l)'
    <3>1. \A t \in RowsOf(l)' : q[t.position + 1] = Item(t)
      <4> SUFFICES ASSUME NEW t \in RowsOf(l)' PROVE q[t.position + 1] = Item(t)
        OBVIOUS
      <4>1. PICK r \in kept : f[r] = t
        BY <2>4 DEF RowsOf
      <4>2. r \in RowsOf(l) /\ r # gone /\ r.list = l
        BY <2>3, <4>1 DEF RowsOf
      <4>3. /\ r.position \in Nat /\ gone.position \in Nat /\ r.position # gone.position
            /\ r.position + 1 \in 1 .. Len(s) /\ s[r.position + 1] = Item(t)
        BY <2>2, <2>3, <2>7, <4>1, <4>2
      <4>4. CASE r.position < gone.position
        <5>1. t.position = r.position
          BY <2>3, <4>1, <4>2, <4>3, <4>4
        <5>2. r.position + 1 \in 1 .. Len(s) - 1 /\ r.position + 1 < i
          BY <2>7, <2>8, <4>3, <4>4
        <5> QED
          BY <2>9, <4>3, <5>1, <5>2
      <4>5. CASE gone.position < r.position
        <5>1. t.position + 1 = r.position
          BY <2>3, <4>1, <4>2, <4>3, <4>5
        <5>2. r.position \in 1 .. Len(s) - 1 /\ ~(r.position < i)
          BY <2>7, <2>8, <4>3, <4>5
        <5>3. q[r.position] = s[r.position + 1]
          BY <2>9, <5>2
        <5> QED
          BY <4>3, <5>1, <5>3
      <4> QED
        BY <4>3, <4>4, <4>5
    <3>2. q \in Seq(Promise!QueuedItem) /\ Len(q) = Cardinality(RowsOf(l)')
      BY <2>5, <2>7, <2>9
    <3> QED
      BY <3>1, <3>2 DEF Reads
  <2>11. Reader' = [Reader EXCEPT ![l] = q]
    BY <2>6, <2>10, Becomes DEF Reader
  <2>12. Reader[l] = s /\ DOMAIN Reader[l] = 1 .. Len(s)
    BY <2>7 DEF Reader, s
  <2>13. Reader' = [Reader EXCEPT ![l] = Promise!RemoveAt(@, i)]
    BY <2>11, <2>12
  <2>14. Reader[l][i].id = id
    BY <2>1, <2>8, <2>12 DEF Item
  <2> HIDE DEF i
  <2>15. Promise!Drop(l, id)
    BY <2>8, <2>12, <2>13, <2>14 DEF Promise!Drop, Reader
  <2> QED
    BY <2>15
<1> QED
  BY <1>1, <1>2 DEF DeleteQueue

LEMMA MoveReorders ==
  ASSUME IInv, IInv', ReadOneWay, ReadOneWay', NEW id \in Items, NEW place \in Nat,
         MoveQueue(id, place)
  PROVE  (\E l \in Lists : Promise!Reorder(l, id, place)) \/ UNCHANGED Reader
<1>1. CASE ~Known(id)
  BY <1>1 DEF MoveQueue, Refuse, Reader, ListQueue, RowsOf
<1>2. CASE Known(id)
  <2>1. PICK was \in rows, l \in Lists : was = RowOf(id) /\ was.id = id /\ l = was.list
    BY <1>2, TheRow DEF IInv, TypeOK, Row
  <2> DEFINE f == [r \in rows |->
                     IF r.list = l THEN [r EXCEPT !.position = Place(r, id, place)] ELSE r]
             n == Cardinality(RowsOf(l))
             at == IF place < n - 1 THEN place ELSE n - 1
             rank(r) == IF r.position < was.position THEN r.position ELSE r.position - 1
  <2>2. /\ \A r \in rows : r \in Row /\ (r.id = id => r = was)
        /\ was \in RowsOf(l)
        /\ \A r \in RowsOf(l) : r # was => r.position # was.position
    BY <2>1 DEF IInv, TypeOK, RowsOf, Unique
  <2>3. \A r \in RowsOf(l) :
           Place(r, id, place) = IF r = was THEN at
                                 ELSE IF rank(r) < at THEN rank(r) ELSE rank(r) + 1
    <3> TAKE r \in RowsOf(l)
    <3>1. r.id = id <=> r = was
      BY <2>1, <2>2 DEF RowsOf
    <3> QED
      BY <1>2, <2>1, <3>1, PlaceByPosition
  <2>4. \A r \in rows :
           /\ f[r].id = r.id /\ f[r].list = r.list /\ Item(f[r]) = Item(r)
           /\ r.list = l => f[r].position = Place(r, id, place)
           /\ r.list # l => f[r] = r
    BY <2>2 DEF Row, Item
  <2>5. f \in [rows -> rows'] /\ \A t \in rows' : \E r \in rows : f[r] = t
    BY <1>2, <2>1 DEF MoveQueue
  <2> HIDE DEF f
  <2>6. Cardinality(RowsOf(l)') = n
    <3>1. rows \in SUBSET rows /\ IsFiniteSet(rows) /\ \A r, s \in rows : r.id = s.id => r = s
      BY DEF IInv, TypeOK
    <3>2. \A r \in rows : f[r].id = r.id /\ f[r].list = r.list
      BY <2>4
    <3>3. /\ IsFiniteSet(rows')
          /\ \A r, s \in rows' : r.id = s.id => r = s
          /\ \A k : Cardinality(RowsOf(k)') = Cardinality(RowsOf(k) \cap rows)
      BY <3>1, <2>5, <3>2, Rewriting, Zenon
    <3>4. RowsOf(l) \cap rows = RowsOf(l)
      BY DEF RowsOf
    <3> QED
      BY <3>3, <3>4
  <2>7. \A k \in Lists : k # l => RowsOf(k)' = RowsOf(k)
    <3> SUFFICES ASSUME NEW k \in Lists, k # l PROVE {r \in rows' : r.list = k} = {r \in rows : r.list = k}
      BY DEF RowsOf
    <3> QED
      BY <2>1, <2>4, <2>5
  <2> DEFINE s == ListQueue(l)
             i == was.position + 1
             e == s[i]
             rest == Promise!RemoveAt(s, i)
  <2>8. /\ s \in Seq(Promise!QueuedItem) /\ Len(s) = n /\ n \in Nat
        /\ \A r \in RowsOf(l) : r.position \in Nat /\ r.position + 1 \in 1 .. n
                                /\ s[r.position + 1] = Item(r)
    BY ReadFacts
  <2>9. i \in 1 .. n /\ e = Item(was) /\ e \in Promise!QueuedItem
    BY <2>2, <2>8
  <2> HIDE DEF s, n
  <2>10. /\ rest \in Seq(Promise!QueuedItem) /\ Len(rest) = n - 1
         /\ \A j \in 1 .. n - 1 : rest[j] = IF j < i THEN s[j] ELSE s[j + 1]
    BY <2>8, <2>9, Removed
  <2>11. at \in 0 .. n - 1
    BY <2>8, <2>9
  <2> HIDE DEF rest
  <2> PICK q : q = Promise!InsertAt(rest, at + 1, e)
    OBVIOUS
  <2>12. /\ q \in Seq(Promise!QueuedItem) /\ Len(q) = n
         /\ \A j \in 1 .. n : q[j] = IF j < at + 1 THEN rest[j]
                                     ELSE IF j = at + 1 THEN e ELSE rest[j - 1]
    <3>1. at + 1 \in 1 .. Len(rest) + 1
      BY <2>8, <2>10, <2>11
    <3>2. Len(rest) + 1 = n
      BY <2>8, <2>10
    <3> HIDE DEF at, e
    <3>3. /\ q \in Seq(Promise!QueuedItem) /\ Len(q) = Len(rest) + 1
          /\ \A j \in 1 .. Len(rest) + 1 :
                q[j] = IF j < at + 1 THEN rest[j] ELSE IF j = at + 1 THEN e ELSE rest[j - 1]
      <4>1. PICK a, u, x : a = at + 1 /\ u = rest /\ x = e
        OBVIOUS
      <4>2. u \in Seq(Promise!QueuedItem) /\ x \in Promise!QueuedItem /\ a \in 1 .. Len(u) + 1
        BY <2>9, <2>10, <3>1, <4>1
      <4>3. /\ Promise!InsertAt(u, a, x) \in Seq(Promise!QueuedItem)
            /\ Len(Promise!InsertAt(u, a, x)) = Len(u) + 1
            /\ \A j \in 1 .. Len(u) + 1 : Promise!InsertAt(u, a, x)[j] =
                  IF j < a THEN u[j] ELSE IF j = a THEN x ELSE u[j - 1]
        BY <4>2, Inserted
      <4> QED
        BY <4>1, <4>3
    <3> QED
      BY <3>2, <3>3
  <2>13. Reads(q, l)'
    <3>1. \A t \in RowsOf(l)' : q[t.position + 1] = Item(t)
      <4> SUFFICES ASSUME NEW t \in RowsOf(l)' PROVE q[t.position + 1] = Item(t)
        OBVIOUS
      <4>1. PICK r \in rows : f[r] = t
        BY <2>5 DEF RowsOf
      <4>2. /\ r \in RowsOf(l) /\ Item(t) = Item(r)
            /\ t.position = IF r = was THEN at
                            ELSE IF rank(r) < at THEN rank(r) ELSE rank(r) + 1
        BY <2>3, <2>4, <4>1 DEF RowsOf
      <4>3. CASE r = was
        <5>1. t.position + 1 = at + 1 /\ at + 1 \in 1 .. n
          BY <2>8, <2>11, <4>2, <4>3
        <5>2. q[at + 1] = e
          <6> HIDE DEF at, e
          <6> QED
            BY <2>11, <2>12, <5>1
        <5> QED
          BY <2>9, <4>2, <4>3, <5>1, <5>2
      <4>4. CASE r # was
        <5> DEFINE m == rank(r)
        <5>1. /\ r.position \in Nat /\ was.position \in Nat /\ r.position # was.position
              /\ r.position < n /\ was.position < n /\ s[r.position + 1] = Item(t)
          BY <2>2, <2>8, <4>2, <4>4
        <5>2. m \in 0 .. n - 2 /\ m + 1 \in 1 .. n - 1
          BY <2>8, <5>1
        <5>3. rest[m + 1] = Item(t)
          <6>1. CASE r.position < was.position
            <7>1. m = r.position /\ m + 1 < i
              BY <5>1, <6>1
            <7> QED
              BY <2>10, <5>1, <5>2, <7>1
          <6>2. CASE was.position < r.position
            <7>1. m + 1 = r.position /\ ~(m + 1 < i)
              BY <5>1, <6>2
            <7>2. rest[m + 1] = s[m + 1 + 1]
              BY <2>10, <5>2, <7>1
            <7> QED
              BY <5>1, <7>1, <7>2
          <6> QED
            BY <5>1, <6>1, <6>2
        <5>4. t.position = IF m < at THEN m ELSE m + 1
          BY <4>2, <4>4
        <5> HIDE DEF m, at, e
        <5>5. CASE m < at
          <6>1. t.position + 1 = m + 1 /\ m + 1 < at + 1 /\ m + 1 \in 1 .. n
            BY <2>8, <2>11, <5>2, <5>4, <5>5
          <6> QED
            BY <2>12, <5>3, <6>1
        <5>6. CASE ~(m < at)
          <6>1. /\ t.position + 1 = m + 2 /\ ~(m + 2 < at + 1) /\ m + 2 # at + 1
                /\ m + 2 \in 1 .. n /\ m + 2 - 1 = m + 1
            BY <2>8, <2>11, <5>2, <5>4, <5>6
          <6>2. PICK j \in 1 .. n : j = m + 2
            BY <6>1
          <6>3. q[j] = rest[j - 1]
            BY <2>12, <6>1, <6>2
          <6>4. j - 1 = m + 1 /\ t.position + 1 = j
            BY <5>2, <6>1, <6>2
          <6> QED
            BY <5>3, <6>3, <6>4
        <5> QED
          BY <5>5, <5>6
      <4> QED
        BY <4>3, <4>4
    <3>2. q \in Seq(Promise!QueuedItem) /\ Len(q) = Cardinality(RowsOf(l)')
      BY <2>6, <2>12
    <3> QED
      BY <3>1, <3>2 DEF Reads
  <2>14. Reader' = [Reader EXCEPT ![l] = q]
    BY <2>7, <2>13, Becomes DEF Reader
  <2>15. Reader[l] = s /\ DOMAIN Reader[l] = 1 .. n
    BY <2>8 DEF Reader, s
  <2>16. at + 1 = (IF place < Len(rest) THEN place ELSE Len(rest)) + 1
    BY <2>10
  <2>17. Reader' = [Reader EXCEPT ![l] =
                      Promise!InsertAt(Promise!RemoveAt(Reader[l], i),
                        (IF place < Len(Promise!RemoveAt(Reader[l], i)) THEN place
                         ELSE Len(Promise!RemoveAt(Reader[l], i))) + 1, Reader[l][i])]
    BY <2>14, <2>15, <2>16 DEF rest
  <2>18. Reader[l][i].id = id
    BY <2>1, <2>9, <2>15 DEF Item
  <2> HIDE DEF i
  <2>19. Promise!Reorder(l, id, place)
    BY <2>9, <2>15, <2>17, <2>18 DEF Promise!Reorder, Reader
  <2> QED
    BY <2>19
<1> QED
  BY <1>1, <1>2

\* The step simulation: every step of the table is a step of the promised
\* queue, or one its readers do not see.
LEMMA StepKeepsPromise ==
  ASSUME LimitBounds, IInv, IInv', ReadOneWay, ReadOneWay', [Next]_vars
  PROVE  Promise!Next \/ UNCHANGED Reader
<1>1. ASSUME NEW id \in Items, NEW l \in Lists, NEW text \in Texts, Enqueue(id, l, text)
      PROVE  Promise!Next \/ UNCHANGED Reader
  BY <1>1, EnqueueAppends DEF Promise!Next
<1>2. ASSUME NEW id \in Items, NEW text \in Texts, EditQueue(id, text)
      PROVE  Promise!Next \/ UNCHANGED Reader
  BY <1>2, EditRetexts DEF Promise!Next
<1>3. ASSUME NEW id \in Items, NEW place \in 0 .. Limit, MoveQueue(id, place)
      PROVE  Promise!Next \/ UNCHANGED Reader
  BY <1>3, MoveReorders DEF Promise!Next, LimitBounds
<1>4. ASSUME NEW id \in Items, DeleteQueue(id)
      PROVE  Promise!Next \/ UNCHANGED Reader
  BY <1>4, DeleteDrops DEF Promise!Next
<1>5. ASSUME NEW l \in Lists, ClearQueue(l)
      PROVE  Promise!Next \/ UNCHANGED Reader
  BY <1>5, ClearEmpties DEF Promise!Next
<1>6. CASE UNCHANGED vars
  BY <1>6 DEF vars, Reader, ListQueue, RowsOf
<1> QED
  BY <1>1, <1>2, <1>3, <1>4, <1>5, <1>6 DEF Next

LEMMA InitKeepsPromise == Init => Promise!Init
<1> SUFFICES ASSUME Init, NEW l \in Lists PROVE ListQueue(l) = << >>
  BY DEF Promise!Init
<1>1. RowsOf(l) = {} /\ Cardinality(RowsOf(l)) = 0
  BY FS_EmptySet DEF Init, RowsOf
<1> QED
  BY <1>1 DEF ListQueue

\* The table implements the queue the bridge promises: whatever positions,
\* renumbering and constraint errors do underneath, a reader of any list sees
\* an ordered, bounded queue that is appended to, edited, reordered, thinned
\* out and cleared, for any number of items, lists and texts and any limit.
THEOREM QueueKeepsPromise == ASSUME LimitBounds PROVE Spec => KeepsPromise
<1>1. Init => Promise!Init
  BY InitKeepsPromise
<1>2. IInv => ReadOneWay
  BY ReadingIsOne
<1>3. IInv /\ IInv' /\ ReadOneWay /\ ReadOneWay' /\ [Next]_vars
        => [Promise!Next]_[l \in Lists |-> ListQueue(l)]
  BY StepKeepsPromise DEF Reader
<1> QED
  BY <1>1, <1>2, <1>3, Invariance, PTL DEF Spec, KeepsPromise, Promise!Spec
=============================================================================
