--------------------------- MODULE AttrSetsProofs ---------------------------
(***************************************************************************)
(* Theorems about AttrSets, for any keys, any sizes and any number of sets *)
(* and entries.                                                            *)
(***************************************************************************)
EXTENDS AttrSets, FiniteSetTheorems, TLAPS

-----------------------------------------------------------------------------
(* One set: what the writes to its blocks do to its entries.               *)

LEMMA BlockTyped ==
  ASSUME NEW W, NEW size \in Nat, NEW f
  PROVE  f \in Blocks(W, size) <=> \E n \in 0 .. size : f \in [0 .. n - 1 -> W]
  BY DEF Blocks

\* The blocks of a set, whatever is written there.
Roomy(s) ==
  /\ s \in AttrSet
  /\ DOMAIN s.names = 0 .. 2 * s.capacity - 1
  /\ 0 .. s.capacity - 1 \subseteq DOMAIN s.values

LEMMA WellFormedIsRoomy ==
  ASSUME NEW s
  PROVE  WellFormed(s) <=> /\ Roomy(s) /\ s.count <= s.capacity
                           /\ \A x \in 0 .. s.count - 1 : At(s, x) \in Entry
  BY DEF WellFormed, Roomy

LEMMA SetFields ==
  ASSUME NEW s \in AttrSet
  PROVE  /\ s.names \in Blocks(Keys \cup Words \cup {Junk}, 2 * MaxEntries)
         /\ s.values \in Blocks(Words \cup {Junk}, MaxEntries)
         /\ s.count \in Nat /\ s.capacity \in Nat /\ s.count <= MaxEntries /\ s.capacity <= MaxEntries
         /\ s.frozen \in BOOLEAN
         /\ MaxEntries \in Nat /\ 2 * MaxEntries \in Nat
  BY AttrSetSizes DEF AttrSet

LEMMA PutFacts ==
  ASSUME NEW s, Roomy(s), NEW i \in 0 .. s.capacity - 1, NEW e \in Entry
  PROVE  /\ Roomy(Put(s, i, e))
         /\ Put(s, i, e).count = s.count /\ Put(s, i, e).capacity = s.capacity
         /\ Put(s, i, e).frozen = s.frozen
         /\ At(Put(s, i, e), i) = e
         /\ \A x \in 0 .. s.capacity - 1 : x # i => At(Put(s, i, e), x) = At(s, x)
  <1> DEFINE p == Put(s, i, e)
  <1>1. /\ s \in AttrSet /\ s.names \in Blocks(Keys \cup Words \cup {Junk}, 2 * MaxEntries)
        /\ s.values \in Blocks(Words \cup {Junk}, MaxEntries)
        /\ s.capacity \in Nat /\ MaxEntries \in Nat /\ 2 * MaxEntries \in Nat
        /\ DOMAIN s.names = 0 .. 2 * s.capacity - 1
        /\ 0 .. s.capacity - 1 \subseteq DOMAIN s.values
    BY SetFields DEF Roomy
  <1>2. PICK n \in 0 .. 2 * MaxEntries : s.names \in [0 .. n - 1 -> Keys \cup Words \cup {Junk}]
    BY <1>1, BlockTyped
  <1>3. PICK m \in 0 .. MaxEntries : s.values \in [0 .. m - 1 -> Words \cup {Junk}]
    BY <1>1, BlockTyped
  <1>4. i \in DOMAIN s.names /\ s.capacity + i \in DOMAIN s.names /\ s.capacity + i # i /\ i \in DOMAIN s.values
    BY <1>1
  <1>5. e.key \in Keys /\ e.pos \in Words /\ e.value \in Words
        /\ e = [key |-> e.key, pos |-> e.pos, value |-> e.value]
    BY DEF Entry
  <1>6. /\ p.names = [s.names EXCEPT ![i] = e.key, ![s.capacity + i] = e.pos]
        /\ p.values = [s.values EXCEPT ![i] = e.value]
        /\ p.count = s.count /\ p.capacity = s.capacity /\ p.frozen = s.frozen
    BY <1>1 DEF Put, AttrSet
  <1>7. /\ p.names \in [0 .. n - 1 -> Keys \cup Words \cup {Junk}]
        /\ p.values \in [0 .. m - 1 -> Words \cup {Junk}]
        /\ DOMAIN p.names = DOMAIN s.names /\ DOMAIN p.values = DOMAIN s.values
    BY <1>2, <1>3, <1>5, <1>6
  <1>8. Roomy(p)
    <2>1. p.names \in Blocks(Keys \cup Words \cup {Junk}, 2 * MaxEntries)
      BY <1>1, <1>7, BlockTyped
    <2>2. p.values \in Blocks(Words \cup {Junk}, MaxEntries)
      BY <1>1, <1>7, BlockTyped
    <2>3. p \in AttrSet
      BY <1>1, <2>1, <2>2 DEF Put, AttrSet
    <2> QED
      BY <1>1, <1>6, <1>7, <2>3 DEF Roomy
  <1>9. At(p, i) = e
    BY <1>4, <1>5, <1>6 DEF At
  <1>10. ASSUME NEW x \in 0 .. s.capacity - 1, x # i PROVE At(p, x) = At(s, x)
    <2>1. /\ x \in DOMAIN s.names /\ s.capacity + x \in DOMAIN s.names /\ x \in DOMAIN s.values
          /\ x # s.capacity + i /\ s.capacity + x # i /\ s.capacity + x # s.capacity + i
      BY <1>1, <1>10
    <2> QED
      BY <1>4, <1>6, <1>10, <2>1 DEF At
  <1> QED
    BY <1>6, <1>8, <1>9, <1>10

LEMMA AppendedFacts ==
  ASSUME NEW s, WellFormed(s), s.count < s.capacity, NEW e \in Entry
  PROVE  /\ WellFormed(Appended(s, e))
         /\ Appended(s, e).count = s.count + 1
         /\ Appended(s, e).capacity = s.capacity /\ Appended(s, e).frozen = s.frozen
         /\ \A x \in 0 .. s.count - 1 : At(Appended(s, e), x) = At(s, x)
         /\ At(Appended(s, e), s.count) = e
  <1> DEFINE p == Put(s, s.count, e)
             a == Appended(s, e)
  <1>1. s.count \in Nat /\ s.capacity \in Nat /\ s.count \in 0 .. s.capacity - 1 /\ Roomy(s)
        /\ s.capacity <= MaxEntries /\ MaxEntries \in Nat
    BY SetFields, WellFormedIsRoomy DEF Roomy
  <1>2. /\ Roomy(p) /\ p.count = s.count /\ p.capacity = s.capacity /\ p.frozen = s.frozen
        /\ At(p, s.count) = e
        /\ \A x \in 0 .. s.capacity - 1 : x # s.count => At(p, x) = At(s, x)
    BY <1>1, PutFacts
  <1>3. a = [p EXCEPT !.count = s.count + 1]
    BY <1>2 DEF Appended
  <1> HIDE DEF p, a
  <1>4. /\ a.names = p.names /\ a.values = p.values /\ a.count = s.count + 1
        /\ a.capacity = p.capacity /\ a.frozen = p.frozen /\ a \in AttrSet
    BY <1>1, <1>2, <1>3 DEF Roomy, AttrSet
  <1>5. Roomy(a) /\ \A x : At(a, x) = At(p, x)
    BY <1>2, <1>4 DEF Roomy, At
  <1>6. \A x \in 0 .. s.count - 1 : x \in 0 .. s.capacity - 1 /\ x # s.count
    BY <1>1
  <1>7. \A x \in 0 .. s.count - 1 : At(a, x) = At(s, x)
    BY <1>2, <1>5, <1>6
  <1>8. At(a, s.count) = e
    BY <1>2, <1>5
  <1>9. \A x \in 0 .. a.count - 1 : At(a, x) \in Entry
    <2>1. \A x \in 0 .. a.count - 1 : x = s.count \/ x \in 0 .. s.count - 1
      BY <1>1, <1>4
    <2> QED
      BY <1>7, <1>8, <2>1, WellFormedIsRoomy
  <1> QED
    BY <1>1, <1>2, <1>4, <1>5, <1>7, <1>8, <1>9, WellFormedIsRoomy DEF a

LEMMA ResizedTyped ==
  ASSUME NEW W, Junk \in W, NEW size \in Nat, NEW block \in Blocks(W, size), NEW n \in Nat
  PROVE  /\ Resized(block, n) \in [0 .. n - 1 -> W]
         /\ \A x \in 0 .. n - 1 : x \in DOMAIN block => Resized(block, n)[x] = block[x]
  <1>1. PICK m \in 0 .. size : block \in [0 .. m - 1 -> W]
    BY BlockTyped
  <1> QED
    BY <1>1 DEF Resized


LEMMA WithRoomFacts ==
  ASSUME NEW s, WellFormed(s), NEW room \in s.capacity .. MaxEntries
  PROVE  /\ WellFormed(WithRoom(s, room))
         /\ WithRoom(s, room).count = s.count /\ WithRoom(s, room).capacity = room
         /\ WithRoom(s, room).frozen = s.frozen
         /\ \A x \in 0 .. s.count - 1 : At(WithRoom(s, room), x) = At(s, x)
  <1> DEFINE names == Resized(s.names, 2 * room)
             moved == [w \in 0 .. 2 * room - 1 |->
                         IF w \in room .. room + s.count - 1
                         THEN names[s.capacity + (w - room)] ELSE names[w]]
             values == Resized(s.values, room)
             r == WithRoom(s, room)
  <1>1. /\ s \in AttrSet /\ s.names \in Blocks(Keys \cup Words \cup {Junk}, 2 * MaxEntries)
        /\ s.values \in Blocks(Words \cup {Junk}, MaxEntries)
        /\ s.count \in Nat /\ s.capacity \in Nat /\ s.count <= s.capacity /\ MaxEntries \in Nat
        /\ 2 * MaxEntries \in Nat /\ room \in Nat /\ 2 * room \in Nat /\ s.capacity <= room /\ room <= MaxEntries
        /\ DOMAIN s.names = 0 .. 2 * s.capacity - 1
        /\ 0 .. s.capacity - 1 \subseteq DOMAIN s.values
    <2>1. s.capacity \in Nat /\ MaxEntries \in Nat
      BY SetFields DEF WellFormed
    <2>2. room \in Nat /\ 2 * room \in Nat /\ s.capacity <= room /\ room <= MaxEntries
      BY <2>1
    <2> QED
      BY <2>2, SetFields DEF WellFormed
  <1>a. Junk \in Keys \cup Words \cup {Junk} /\ Junk \in Words \cup {Junk}
    OBVIOUS
  <1>2. /\ names \in [0 .. 2 * room - 1 -> Keys \cup Words \cup {Junk}]
        /\ \A x \in 0 .. 2 * room - 1 : x \in DOMAIN s.names => names[x] = s.names[x]
    <2>1. PICK n \in Nat : n = 2 * room
      BY <1>1
    <2>2. PICK W : W = Keys \cup Words \cup {Junk}
      OBVIOUS
    <2>3. Junk \in W /\ s.names \in Blocks(W, 2 * MaxEntries) /\ 2 * MaxEntries \in Nat
      BY <1>1, <1>a, <2>2
    <2>4. /\ Resized(s.names, n) \in [0 .. n - 1 -> W]
          /\ \A x \in 0 .. n - 1 : x \in DOMAIN s.names => Resized(s.names, n)[x] = s.names[x]
      BY <2>3, ResizedTyped
    <2> QED
      BY <2>1, <2>2, <2>4
  <1>3. /\ values \in [0 .. room - 1 -> Words \cup {Junk}]
        /\ \A x \in 0 .. room - 1 : x \in DOMAIN s.values => values[x] = s.values[x]
    <2>1. PICK W : W = Words \cup {Junk}
      OBVIOUS
    <2>2. Junk \in W /\ s.values \in Blocks(W, MaxEntries) /\ MaxEntries \in Nat /\ room \in Nat
      BY <1>1, <1>a, <2>1
    <2>3. /\ Resized(s.values, room) \in [0 .. room - 1 -> W]
          /\ \A x \in 0 .. room - 1 : x \in DOMAIN s.values => Resized(s.values, room)[x] = s.values[x]
      BY <2>2, ResizedTyped
    <2> QED
      BY <2>1, <2>3
  <1> HIDE DEF names, values
  <1>4. /\ r.names = moved /\ r.values = values /\ r.capacity = room /\ r.count = s.count
        /\ r.frozen = s.frozen /\ r = [s EXCEPT !.names = moved, !.values = values, !.capacity = room]
    BY <1>1 DEF WithRoom, names, values, AttrSet
  <1>5. moved \in [0 .. 2 * room - 1 -> Keys \cup Words \cup {Junk}]
    <2>1. ASSUME NEW w \in 0 .. 2 * room - 1, w \in room .. room + s.count - 1
          PROVE  s.capacity + (w - room) \in 0 .. 2 * room - 1
      BY <1>1, <2>1
    <2> QED
      BY <1>2, <2>1
  <1>6. Roomy(r)
    <2>1. 2 * room \in 0 .. 2 * MaxEntries /\ room \in 0 .. MaxEntries
      BY <1>1
    <2>2. moved \in Blocks(Keys \cup Words \cup {Junk}, 2 * MaxEntries)
      BY <1>1, <1>5, <2>1, BlockTyped
    <2>3. values \in Blocks(Words \cup {Junk}, MaxEntries)
      BY <1>1, <1>3, <2>1, BlockTyped
    <2>4. DOMAIN moved = 0 .. 2 * room - 1 /\ DOMAIN values = 0 .. room - 1
      BY <1>3
    <2> HIDE DEF moved
    <2>5. r \in AttrSet
      BY <1>1, <1>4, <2>1, <2>2, <2>3 DEF AttrSet
    <2> QED
      BY <1>4, <2>4, <2>5 DEF Roomy
  <1>7. ASSUME NEW x \in 0 .. s.count - 1 PROVE At(r, x) = At(s, x)
    <2>a. x \in Nat /\ x < s.capacity /\ x < s.count
      BY <1>1
    <2>b. /\ x \in 0 .. 2 * room - 1 /\ ~(x \in room .. room + s.count - 1) /\ x \in 0 .. room - 1
      BY <1>1, <2>a
    <2>c. x \in 0 .. 2 * s.capacity - 1 /\ x \in 0 .. s.capacity - 1
      BY <1>1, <2>a
    <2>d. room + x \in 0 .. 2 * room - 1 /\ room + x \in room .. room + s.count - 1
      BY <1>1, <2>a
    <2>e. /\ s.capacity + ((room + x) - room) = s.capacity + x
          /\ s.capacity + x \in 0 .. 2 * room - 1 /\ s.capacity + x \in 0 .. 2 * s.capacity - 1
      BY <1>1, <2>a
    <2>f. x \in DOMAIN s.names /\ x \in DOMAIN s.values /\ s.capacity + x \in DOMAIN s.names
      BY <1>1, <2>c, <2>e
    <2>1. moved[x] = names[x] /\ moved[room + x] = names[s.capacity + x]
      BY <2>b, <2>d, <2>e
    <2>2. moved[x] = s.names[x] /\ moved[room + x] = s.names[s.capacity + x] /\ values[x] = s.values[x]
      BY <1>2, <1>3, <2>1, <2>b, <2>e, <2>f
    <2> HIDE DEF moved
    <2> QED
      BY <1>4, <2>2 DEF At
  <1> HIDE DEF moved, r
  <1>8. \A x \in 0 .. r.count - 1 : At(r, x) \in Entry
    BY <1>4, <1>7, WellFormedIsRoomy
  <1>9. r.count <= r.capacity
    BY <1>1, <1>4
  <1>10. WellFormed(r)
    BY <1>6, <1>8, <1>9, WellFormedIsRoomy
  <1>11. /\ r.count = s.count /\ r.capacity = room /\ r.frozen = s.frozen
         /\ \A x \in 0 .. s.count - 1 : At(r, x) = At(s, x)
    BY <1>4, <1>7
  <1> QED
    BY <1>10, <1>11 DEF r

\* realloc of the values alone.
LEMMA ValuesGrown ==
  ASSUME NEW s, WellFormed(s), NEW n \in s.capacity .. MaxEntries, NEW r, r = [s EXCEPT !.values = Resized(@, n)]
  PROVE  /\ WellFormed(r) /\ r.count = s.count /\ r.capacity = s.capacity /\ r.frozen = s.frozen
         /\ \A x \in 0 .. s.count - 1 : At(r, x) = At(s, x)
  <1> DEFINE values == Resized(s.values, n)
  <1>1. /\ s \in AttrSet /\ s.values \in Blocks(Words \cup {Junk}, MaxEntries)
        /\ s.count \in Nat /\ s.capacity \in Nat /\ s.count <= s.capacity /\ MaxEntries \in Nat
        /\ n \in Nat /\ s.capacity <= n /\ n <= MaxEntries
        /\ DOMAIN s.names = 0 .. 2 * s.capacity - 1
        /\ 0 .. s.capacity - 1 \subseteq DOMAIN s.values
    <2>1. s.capacity \in Nat /\ MaxEntries \in Nat
      BY SetFields DEF WellFormed
    <2>2. n \in Nat /\ s.capacity <= n /\ n <= MaxEntries
      BY <2>1
    <2> QED
      BY <2>2, SetFields DEF WellFormed
  <1>2. /\ values \in [0 .. n - 1 -> Words \cup {Junk}]
        /\ \A x \in 0 .. n - 1 : x \in DOMAIN s.values => values[x] = s.values[x]
    <2>1. PICK W : W = Words \cup {Junk}
      OBVIOUS
    <2>2. Junk \in W /\ s.values \in Blocks(W, MaxEntries) /\ MaxEntries \in Nat /\ n \in Nat
      BY <1>1, <2>1
    <2>3. /\ Resized(s.values, n) \in [0 .. n - 1 -> W]
          /\ \A x \in 0 .. n - 1 : x \in DOMAIN s.values => Resized(s.values, n)[x] = s.values[x]
      BY <2>2, ResizedTyped
    <2> QED
      BY <2>1, <2>3
  <1> HIDE DEF values
  <1>3. r = [s EXCEPT !.values = values]
    BY DEF values
  <1>4. /\ r.names = s.names /\ r.values = values /\ r.capacity = s.capacity /\ r.count = s.count
        /\ r.frozen = s.frozen
    BY <1>1, <1>3 DEF AttrSet
  <1>5. values \in Blocks(Words \cup {Junk}, MaxEntries)
    BY <1>1, <1>2, BlockTyped
  <1>6. r \in AttrSet
    BY <1>1, <1>3, <1>5 DEF AttrSet
  <1>7. Roomy(r)
    BY <1>1, <1>2, <1>4, <1>6 DEF Roomy
  <1>8. ASSUME NEW x \in 0 .. s.count - 1 PROVE At(r, x) = At(s, x)
    <2>1. x \in 0 .. n - 1 /\ x \in DOMAIN s.values
      BY <1>1
    <2> QED
      BY <1>2, <1>4, <2>1 DEF At
  <1>9. \A x \in 0 .. r.count - 1 : At(r, x) \in Entry
    BY <1>4, <1>8, WellFormedIsRoomy
  <1> QED
    BY <1>1, <1>4, <1>7, <1>8, <1>9, WellFormedIsRoomy

(* However an insertion ends, the entries stay; one that succeeds has room *)
(* for its own.                                                            *)
LEMMA InsertFacts ==
  ASSUME NEW s, WellFormed(s), s.capacity > 0, NEW e \in Entry, NEW r \in nn_attrset_insert(s, e)
  PROVE  /\ WellFormed(r.set) /\ r.set.capacity > 0 /\ r.set.frozen = s.frozen
         /\ \A x \in 0 .. s.count - 1 : At(r.set, x) = At(s, x)
         /\ r.ok => r.set.count = s.count + 1 /\ At(r.set, s.count) = e
         /\ ~r.ok => r.set.count = s.count
  <1>1. /\ s.count \in Nat /\ s.capacity \in Nat /\ s.count <= s.capacity /\ s.capacity <= MaxEntries
        /\ MaxEntries \in Nat /\ s \in AttrSet
    BY SetFields DEF WellFormed
  <1>2. CASE s.count < s.capacity
    <2>1. r = [ok |-> TRUE, set |-> Appended(s, e)]
      BY <1>2 DEF nn_attrset_insert
    <2> QED
      BY <1>1, <1>2, <2>1, AppendedFacts
  <1>3. CASE ~(s.count < s.capacity)
    <2>1. PICK g \in grow(s) : r = IF g.ok THEN [g EXCEPT !.set = Appended(@, e)] ELSE g
      BY <1>3 DEF nn_attrset_insert
    <2>2. CASE g = [ok |-> FALSE, set |-> s]
      BY <2>1, <2>2
    <2>3. ASSUME s.capacity < MaxEntries
          PROVE  Doubled(s) \in s.capacity + 1 .. MaxEntries
      BY <1>1, <2>3 DEF Doubled
    <2>4. CASE s.capacity < MaxEntries /\ g = [ok |-> FALSE, set |-> [s EXCEPT !.values = Resized(@, Doubled(s))]]
      <3>1. PICK n \in s.capacity .. MaxEntries : n = Doubled(s)
        BY <1>1, <2>3, <2>4
      <3>2. PICK t : t = [s EXCEPT !.values = Resized(@, n)]
        OBVIOUS
      <3>3. /\ WellFormed(t) /\ t.count = s.count /\ t.capacity = s.capacity /\ t.frozen = s.frozen
            /\ \A x \in 0 .. s.count - 1 : At(t, x) = At(s, x)
        BY <3>2, ValuesGrown
      <3>4. r.ok = FALSE /\ r.set = t
        BY <2>1, <2>4, <3>1, <3>2
      <3> QED
        BY <3>3, <3>4
    <2>5. CASE s.capacity < MaxEntries /\ g = [ok |-> TRUE, set |-> WithRoom(s, Doubled(s))]
      <3>1. PICK n \in s.capacity .. MaxEntries : n = Doubled(s) /\ n > s.capacity
        BY <1>1, <2>3, <2>5
      <3>2. PICK t : t = WithRoom(s, n)
        OBVIOUS
      <3>3. /\ WellFormed(t) /\ t.count = s.count /\ t.capacity = n /\ t.frozen = s.frozen
            /\ \A x \in 0 .. s.count - 1 : At(t, x) = At(s, x)
        BY <3>2, WithRoomFacts
      <3>4. t.count < t.capacity
        BY <1>1, <3>1, <3>3
      <3>5. r.ok = TRUE /\ r.set = Appended(t, e)
        BY <2>1, <2>5, <3>1, <3>2
      <3>6. /\ WellFormed(Appended(t, e))
            /\ Appended(t, e).count = t.count + 1
            /\ Appended(t, e).capacity = t.capacity /\ Appended(t, e).frozen = t.frozen
            /\ \A x \in 0 .. t.count - 1 : At(Appended(t, e), x) = At(t, x)
            /\ At(Appended(t, e), t.count) = e
        BY <3>3, <3>4, AppendedFacts
      <3> QED
        BY <1>1, <3>1, <3>3, <3>5, <3>6
    <2>6. \/ g = [ok |-> FALSE, set |-> s]
          \/ s.capacity < MaxEntries
             /\ \/ g = [ok |-> FALSE, set |-> [s EXCEPT !.values = Resized(@, Doubled(s))]]
                \/ g = [ok |-> TRUE, set |-> WithRoom(s, Doubled(s))]
      BY <1>1, <2>1 DEF grow
    <2> QED
      BY <2>2, <2>4, <2>5, <2>6
  <1> QED
    BY <1>2, <1>3

LEMMA MadeFacts ==
  ASSUME NEW c \in 0 .. MaxEntries
  PROVE  /\ WellFormed(Made(c)) /\ Made(c).capacity > 0 /\ Made(c).count = 0 /\ Made(c).frozen = FALSE
  <1> DEFINE room == IF c = 0 THEN DefaultCapacity ELSE c
             names == [w \in 0 .. 2 * room - 1 |-> Junk]
             values == [w \in 0 .. room - 1 |-> Junk]
             m == [names |-> names, values |-> values, count |-> 0, capacity |-> room, frozen |-> FALSE]
  <1>1. room \in 1 .. MaxEntries /\ MaxEntries \in Nat
    BY AttrSetSizes
  <1>2. Made(c) = m
    <2>1. Made(c) = [Blank EXCEPT !.names = names, !.values = values, !.capacity = room]
      BY DEF Made
    <2> HIDE DEF names, values, room
    <2> QED
      BY <2>1 DEF Blank
  <1> HIDE DEF room
  <1>3. /\ names \in [0 .. 2 * room - 1 -> Keys \cup Words \cup {Junk}]
        /\ values \in [0 .. room - 1 -> Words \cup {Junk}]
        /\ DOMAIN names = 0 .. 2 * room - 1 /\ DOMAIN values = 0 .. room - 1
        /\ 2 * room \in 0 .. 2 * MaxEntries /\ room \in 0 .. MaxEntries /\ 2 * MaxEntries \in Nat
    BY <1>1
  <1> HIDE DEF names, values
  <1>4. names \in Blocks(Keys \cup Words \cup {Junk}, 2 * MaxEntries) /\ values \in Blocks(Words \cup {Junk}, MaxEntries)
    BY <1>1, <1>3, BlockTyped
  <1>5. m \in AttrSet
    BY <1>1, <1>3, <1>4 DEF AttrSet
  <1>6. 0 .. 0 - 1 = {}
    OBVIOUS
  <1> QED
    BY <1>1, <1>2, <1>3, <1>5, <1>6 DEF WellFormed

LEMMA BlankFacts == WellFormed(Blank) /\ Blank.frozen = FALSE
  <1> DEFINE none == [w \in {} |-> Junk]
  <1>1. none \in [0 .. 0 - 1 -> Keys \cup Words \cup {Junk}] /\ none \in [0 .. 0 - 1 -> Words \cup {Junk}]
        /\ DOMAIN none = {}
    <2>1. 0 .. 0 - 1 = {}
      OBVIOUS
    <2> QED
      BY <2>1
  <1> HIDE DEF none
  <1>2. MaxEntries \in Nat /\ 0 \in 0 .. 2 * MaxEntries /\ 0 \in 0 .. MaxEntries /\ 2 * MaxEntries \in Nat
        /\ 0 .. 0 - 1 = {} /\ 0 .. 2 * 0 - 1 = {}
    BY AttrSetSizes
  <1>3. none \in Blocks(Keys \cup Words \cup {Junk}, 2 * MaxEntries) /\ none \in Blocks(Words \cup {Junk}, MaxEntries)
    BY <1>1, <1>2, BlockTyped
  <1>4. Blank = [names |-> none, values |-> none, count |-> 0, capacity |-> 0, frozen |-> FALSE]
    BY DEF Blank, none
  <1>5. Blank \in AttrSet
    BY <1>2, <1>3, <1>4 DEF AttrSet
  <1> QED
    BY <1>1, <1>2, <1>4, <1>5 DEF WellFormed

\* One permutation moves the keys, the positions and the values.
LEMMA RearrangedFacts ==
  ASSUME NEW s, WellFormed(s), NEW place \in [0 .. s.count - 1 -> 0 .. s.count - 1]
  PROVE  /\ WellFormed(Rearranged(s, place))
         /\ Rearranged(s, place).count = s.count /\ Rearranged(s, place).capacity = s.capacity
         /\ Rearranged(s, place).frozen = s.frozen
         /\ \A x \in 0 .. s.count - 1 : At(Rearranged(s, place), x) = At(s, place[x])
  <1> DEFINE In(w) == w \in 0 .. s.count - 1
             names == [w \in DOMAIN s.names |->
                   IF In(w) THEN s.names[place[w]]
                   ELSE IF w >= s.capacity /\ In(w - s.capacity)
                        THEN s.names[s.capacity + place[w - s.capacity]] ELSE s.names[w]]
             values == [w \in DOMAIN s.values |-> IF In(w) THEN s.values[place[w]] ELSE s.values[w]]
             r == Rearranged(s, place)
  <1>1. /\ s \in AttrSet /\ s.names \in Blocks(Keys \cup Words \cup {Junk}, 2 * MaxEntries)
        /\ s.values \in Blocks(Words \cup {Junk}, MaxEntries)
        /\ s.count \in Nat /\ s.capacity \in Nat /\ s.count <= s.capacity /\ MaxEntries \in Nat
        /\ 2 * MaxEntries \in Nat /\ s.capacity <= MaxEntries
        /\ DOMAIN s.names = 0 .. 2 * s.capacity - 1
        /\ 0 .. s.capacity - 1 \subseteq DOMAIN s.values
        /\ \A x \in 0 .. s.count - 1 : At(s, x) \in Entry
    BY SetFields DEF WellFormed
  <1>2. PICK m \in 0 .. MaxEntries : s.values \in [0 .. m - 1 -> Words \cup {Junk}]
    BY <1>1, BlockTyped
  <1>3. s.names \in [0 .. 2 * s.capacity - 1 -> Keys \cup Words \cup {Junk}]
    <2>1. PICK n \in 0 .. 2 * MaxEntries : s.names \in [0 .. n - 1 -> Keys \cup Words \cup {Junk}]
      BY <1>1, BlockTyped
    <2> QED
      BY <1>1, <2>1
  <1>a. \A x \in 0 .. s.count - 1 :
          /\ x \in 0 .. 2 * s.capacity - 1 /\ s.capacity + x \in 0 .. 2 * s.capacity - 1
          /\ x \in 0 .. s.capacity - 1
          /\ s.capacity + x >= s.capacity /\ (s.capacity + x) - s.capacity = x /\ ~In(s.capacity + x)
    BY <1>1
  <1>b. \A x \in 0 .. s.count - 1 :
          x \in DOMAIN s.names /\ s.capacity + x \in DOMAIN s.names /\ x \in DOMAIN s.values
    BY <1>1, <1>a
  <1>c. \A x \in 0 .. s.count - 1 : place[x] \in 0 .. s.count - 1
    OBVIOUS
  <1>4. \A x \in 0 .. s.count - 1 :
          /\ x \in DOMAIN s.names /\ s.capacity + x \in DOMAIN s.names /\ x \in DOMAIN s.values
          /\ place[x] \in DOMAIN s.names /\ s.capacity + place[x] \in DOMAIN s.names /\ place[x] \in DOMAIN s.values
          /\ s.capacity + x >= s.capacity /\ (s.capacity + x) - s.capacity = x /\ ~In(s.capacity + x)
    BY <1>a, <1>b, <1>c
  <1>5. names \in [0 .. 2 * s.capacity - 1 -> Keys \cup Words \cup {Junk}]
    <2> SUFFICES ASSUME NEW w \in 0 .. 2 * s.capacity - 1
                 PROVE  names[w] \in Keys \cup Words \cup {Junk} /\ DOMAIN names = 0 .. 2 * s.capacity - 1
      BY <1>1
    <2> QED
      BY <1>1, <1>3, <1>4
  <1>6. values \in [0 .. m - 1 -> Words \cup {Junk}]
    BY <1>1, <1>2, <1>4
  <1>7. ASSUME NEW x \in 0 .. s.count - 1
        PROVE  /\ names[x] = s.names[place[x]] /\ names[s.capacity + x] = s.names[s.capacity + place[x]]
               /\ values[x] = s.values[place[x]]
    BY <1>4
  <1>8. DOMAIN names = DOMAIN s.names /\ DOMAIN values = DOMAIN s.values
    OBVIOUS
  <1>9. r = [s EXCEPT !.names = names, !.values = values]
    BY DEF Rearranged
  <1> HIDE DEF names, values, r
  <1>10. r.names = names /\ r.values = values /\ r.count = s.count /\ r.capacity = s.capacity
         /\ r.frozen = s.frozen
    BY <1>1, <1>9 DEF AttrSet
  <1>11. /\ names \in Blocks(Keys \cup Words \cup {Junk}, 2 * MaxEntries)
         /\ values \in Blocks(Words \cup {Junk}, MaxEntries)
    <2>1. 2 * s.capacity \in 0 .. 2 * MaxEntries
      BY <1>1
    <2> QED
      BY <1>1, <1>5, <1>6, <2>1, BlockTyped
  <1>12. r \in AttrSet
    BY <1>1, <1>9, <1>11 DEF AttrSet
  <1>13. Roomy(r)
    BY <1>1, <1>8, <1>10, <1>12 DEF Roomy
  <1>14. \A x \in 0 .. s.count - 1 : At(r, x) = At(s, place[x])
    BY <1>7, <1>10 DEF At
  <1>15. \A x \in 0 .. r.count - 1 : At(r, x) \in Entry
    BY <1>1, <1>10, <1>14
  <1> QED
    BY <1>1, <1>10, <1>13, <1>14, <1>15, WellFormedIsRoomy DEF r

-----------------------------------------------------------------------------
(* One step of the state: a set is replaced, a call goes on or another one  *)
(* begins.                                                                  *)

LEMMA Keyed ==
  ASSUME NEW s, WellFormed(s), NEW x \in 0 .. s.count - 1
  PROVE  Key(s, x) \in Keys /\ Key(s, x) \in Nat /\ Key(s, x) = At(s, x).key
  BY AttrSetSizes DEF WellFormed, Entry, At, Key

\* Two sets with the same entry at two places have the same key there.
LEMMA SameKey ==
  ASSUME NEW s, NEW t, NEW x, NEW y, At(s, x) = At(t, y)
  PROVE  Key(s, x) = Key(t, y)
  BY DEF At, Key

LEMMA StateFacts ==
  ASSUME TypeOK
  PROVE  /\ tracked \in Nat /\ MaxSets \in Nat /\ tracked <= MaxSets /\ writes \in Nat /\ MaxWrites \in Nat
         /\ given \subseteq 1 .. tracked /\ 1 .. tracked \subseteq Handles /\ given \subseteq Handles
         /\ \A h \in Handles : /\ WellFormed(sets[h])
                               /\ sets[h].count \in Nat /\ sets[h].capacity \in Nat
                               /\ sets[h].count <= sets[h].capacity
         /\ \A h \in given : sets[h].capacity > 0
         /\ op.i \in Nat /\ op.j \in Nat
  <1>1. tracked \in Nat /\ MaxSets \in Nat /\ tracked <= MaxSets /\ writes \in Nat /\ MaxWrites \in Nat
    BY AttrSetSizes DEF TypeOK
  <1>2. given \subseteq 1 .. tracked /\ 1 .. tracked \subseteq Handles
    BY <1>1 DEF TypeOK, Handles
  <1>3. \A h \in Handles : /\ WellFormed(sets[h])
                           /\ sets[h].count \in Nat /\ sets[h].capacity \in Nat
                           /\ sets[h].count <= sets[h].capacity
    BY SetFields DEF TypeOK, WellFormed
  <1>4. \A h \in given : sets[h].capacity > 0
    BY <1>2 DEF TypeOK
  <1>5. op.i \in Nat /\ op.j \in Nat
    BY DEF TypeOK, Calls
  <1> QED
    BY <1>1, <1>2, <1>3, <1>4, <1>5

LEMMA Replaced ==
  ASSUME TypeOK, FrozenIsSorted, NEW h \in Handles, NEW x, WellFormed(x), x.capacity > 0,
         x.frozen => Strictly(x, 0, x.count),
         sets' = [sets EXCEPT ![h] = x]
  PROVE  /\ sets' \in [Handles -> AttrSet] /\ \A g \in Handles : WellFormed(sets'[g])
         /\ \A g \in 1 .. tracked : sets'[g].capacity > 0
         /\ sets'[h] = x /\ \A g \in Handles : g # h => sets'[g] = sets[g]
         /\ FrozenIsSorted'
  <1>1. sets \in [Handles -> AttrSet] /\ \A g \in Handles : WellFormed(sets[g])
    BY DEF TypeOK
  <1>2. x \in AttrSet
    BY DEF WellFormed
  <1>3. sets' \in [Handles -> AttrSet] /\ sets'[h] = x /\ \A g \in Handles : g # h => sets'[g] = sets[g]
    BY <1>1, <1>2
  <1>4. \A g \in Handles : WellFormed(sets'[g])
    BY <1>1, <1>3
  <1>5. \A g \in 1 .. tracked : sets'[g].capacity > 0
    BY <1>3, StateFacts DEF TypeOK
  <1>6. \A g \in Handles : sets'[g].frozen => Strictly(sets'[g], 0, sets'[g].count)
    BY <1>3 DEF FrozenIsSorted
  <1>7. FrozenIsSorted'
    BY <1>6 DEF FrozenIsSorted
  <1> QED
    BY <1>3, <1>4, <1>5, <1>7

LEMMA CallFacts ==
  ASSUME NEW kind \in {"none", "sort", "sift", "dedup", "search", "answer", "union", "remove", "over"},
         NEW h \in 0 .. MaxSets
  PROVE  /\ Call(kind, h) \in Calls
         /\ Call(kind, h).kind = kind /\ Call(kind, h).set = h /\ Call(kind, h).a = 0 /\ Call(kind, h).b = 0
         /\ Call(kind, h).i = 0 /\ Call(kind, h).j = 0 /\ Call(kind, h).entry = Absent
         /\ Call(kind, h).keys = {}
  <1>1. 0 \in 0 .. MaxSets
    BY AttrSetSizes
  <1>2. Call(kind, h) = [kind |-> kind, set |-> h, a |-> 0, b |-> 0, i |-> 0, j |-> 0,
                         entry |-> Absent, keys |-> {}]
    <2>1. PICK k : k = [Idle EXCEPT !.kind = kind]
      OBVIOUS
    <2>2. k = [kind |-> kind, set |-> 0, a |-> 0, b |-> 0, i |-> 0, j |-> 0,
                                         entry |-> Absent, keys |-> {}]
      BY <2>1 DEF Idle
    <2>3. Call(kind, h) = [k EXCEPT !.set = h]
      BY <2>1 DEF Call
    <2> QED
      BY <2>2, <2>3
  <1> QED
    BY <1>1, <1>2 DEF Calls

LEMMA IdleFacts == Idle \in Calls /\ Idle.kind = "none"
  <1>1. 0 \in 0 .. MaxSets
    BY AttrSetSizes
  <1> QED
    BY <1>1 DEF Calls, Idle

\* Outside the loops only the types and the order of the frozen sets count.
LEMMA NoLoop ==
  ASSUME TypeOK', FrozenIsSorted', op'.kind \in {"none", "answer", "over"}
  PROVE  SetsInv'
  BY DEF SetsInv, SortInv, SiftInv, DedupInv, SearchInv, CopyInv

LEMMA LoopsApart ==
  ASSUME TypeOK', FrozenIsSorted',
         \/ op'.kind = "sort" /\ SortInv'
         \/ op'.kind = "sift" /\ SiftInv'
         \/ op'.kind = "dedup" /\ DedupInv'
         \/ op'.kind = "search" /\ SearchInv'
         \/ op'.kind \in {"union", "remove"} /\ CopyInv'
  PROVE  SetsInv'
  BY DEF SetsInv, SortInv, SiftInv, DedupInv, SearchInv, CopyInv

\* A step that leaves all sets, or replaces one of those that were made.
LEMMA TypedAgain ==
  ASSUME TypeOK, FrozenIsSorted, op' \in Calls, writes' \in 0 .. MaxWrites,
         given' \subseteq 1 .. tracked, tracked' = tracked,
         \/ sets' = sets
         \/ \E h \in Handles : \E x : /\ sets' = [sets EXCEPT ![h] = x]
                                      /\ WellFormed(x) /\ x.capacity > 0
                                      /\ x.frozen => Strictly(x, 0, x.count)
  PROVE  TypeOK' /\ FrozenIsSorted'
  <1>1. CASE sets' = sets
    BY <1>1 DEF TypeOK, FrozenIsSorted
  <1>2. CASE \E h \in Handles : \E x : /\ sets' = [sets EXCEPT ![h] = x]
                                       /\ WellFormed(x) /\ x.capacity > 0
                                       /\ x.frozen => Strictly(x, 0, x.count)
    <2>1. PICK h \in Handles : \E x : /\ sets' = [sets EXCEPT ![h] = x]
                                      /\ WellFormed(x) /\ x.capacity > 0
                                      /\ x.frozen => Strictly(x, 0, x.count)
      BY <1>2
    <2>2. PICK x : /\ sets' = [sets EXCEPT ![h] = x]
                   /\ WellFormed(x) /\ x.capacity > 0
                   /\ x.frozen => Strictly(x, 0, x.count)
      BY <2>1
    <2>3. /\ sets' \in [Handles -> AttrSet] /\ \A g \in Handles : WellFormed(sets'[g])
          /\ \A g \in 1 .. tracked : sets'[g].capacity > 0
          /\ FrozenIsSorted'
      BY <2>2, Replaced
    <2> QED
      BY <2>3 DEF TypeOK
  <1> QED
    BY <1>1, <1>2

-----------------------------------------------------------------------------
(* One lemma for each action: the whole invariant again.                    *)

\* A new set is beyond those that were made.
LEMMA MakeFacts ==
  ASSUME TypeOK, FrozenIsSorted, NEW c \in 0 .. MaxEntries, Make(c)
  PROVE  /\ tracked + 1 \in Handles /\ tracked' = tracked + 1 /\ tracked' \in 0 .. MaxSets
         /\ tracked + 1 \notin given
         /\ sets' \in [Handles -> AttrSet] /\ \A g \in Handles : WellFormed(sets'[g])
         /\ \A g \in 1 .. tracked' : sets'[g].capacity > 0
         /\ sets'[tracked + 1] = Made(c) /\ Made(c).count = 0 /\ Made(c).frozen = FALSE
         /\ \A g \in Handles : g # tracked + 1 => sets'[g] = sets[g]
         /\ FrozenIsSorted'
  <1>1. /\ tracked + 1 \in Handles /\ tracked' = tracked + 1
        /\ sets' = [sets EXCEPT ![tracked + 1] = Made(c)]
    BY DEF Make
  <1>2. /\ WellFormed(Made(c)) /\ Made(c).capacity > 0 /\ Made(c).count = 0 /\ Made(c).frozen = FALSE
    BY MadeFacts
  <1>3. PICK h \in Handles : h = tracked + 1
    BY <1>1
  <1>4. PICK x : x = Made(c)
    OBVIOUS
  <1>5. WellFormed(x) /\ x.capacity > 0 /\ x.frozen = FALSE /\ sets' = [sets EXCEPT ![h] = x]
    BY <1>1, <1>2, <1>3, <1>4
  <1>6. /\ sets' \in [Handles -> AttrSet] /\ \A g \in Handles : WellFormed(sets'[g])
        /\ \A g \in 1 .. tracked : sets'[g].capacity > 0
        /\ sets'[h] = x /\ \A g \in Handles : g # h => sets'[g] = sets[g]
        /\ FrozenIsSorted'
    BY <1>5, Replaced
  <1>7. tracked \in Nat /\ MaxSets \in Nat /\ given \subseteq 1 .. tracked
    BY StateFacts
  <1>8. tracked + 1 \in 1 .. MaxSets
    BY <1>1 DEF Handles
  <1>9. tracked' \in 0 .. MaxSets /\ tracked + 1 \notin given
        /\ \A g \in 1 .. tracked + 1 : g \in 1 .. tracked \/ g = tracked + 1
    BY <1>1, <1>7, <1>8
  <1>10. \A g \in 1 .. tracked' : sets'[g].capacity > 0
    BY <1>1, <1>3, <1>5, <1>6, <1>9
  <1> QED
    BY <1>1, <1>2, <1>3, <1>4, <1>6, <1>9, <1>10

LEMMA NewKeeps ==
  ASSUME SetsInv, NEW c \in Capacities, nn_attrset_new(c)
  PROVE  SetsInv'
  <1>1. TypeOK /\ FrozenIsSorted /\ c \in 0 .. MaxEntries /\ Make(c)
        /\ given' = given \cup {tracked + 1} /\ op' = op /\ writes' = writes /\ op.kind = "none"
    BY AttrSetSizes DEF SetsInv, nn_attrset_new, Free
  <1>2. /\ tracked' = tracked + 1 /\ tracked' \in 0 .. MaxSets
        /\ sets' \in [Handles -> AttrSet] /\ \A g \in Handles : WellFormed(sets'[g])
        /\ \A g \in 1 .. tracked' : sets'[g].capacity > 0
        /\ FrozenIsSorted'
    BY <1>1, MakeFacts
  <1>3. given' \subseteq 1 .. tracked'
    <2>1. tracked \in Nat /\ given \subseteq 1 .. tracked
      BY <1>1, StateFacts
    <2> QED
      BY <1>1, <1>2, <2>1
  <1>4. TypeOK'
    BY <1>1, <1>2, <1>3 DEF TypeOK
  <1> QED
    BY <1>1, <1>2, <1>4, NoLoop

LEMMA InsertKeeps ==
  ASSUME SetsInv, NEW h \in Handles, Insert(h)
  PROVE  SetsInv'
  <1>1. TypeOK /\ FrozenIsSorted
    BY DEF SetsInv
  <1>2. PICK k \in Keys :
          \E r \in nn_attrset_insert(sets[h], [key |-> k, pos |-> writes + 1, value |-> writes + 1]) :
            sets' = [sets EXCEPT ![h] = r.set] /\ writes' = IF r.ok THEN writes + 1 ELSE writes
    BY DEF Insert
  <1>3. PICK e : e = [key |-> k, pos |-> writes + 1, value |-> writes + 1]
    OBVIOUS
  <1>4. PICK r \in nn_attrset_insert(sets[h], e) :
            sets' = [sets EXCEPT ![h] = r.set] /\ writes' = IF r.ok THEN writes + 1 ELSE writes
    BY <1>2, <1>3
  <1>5. /\ writes \in Nat /\ MaxWrites \in Nat /\ writes < MaxWrites /\ h \in given
        /\ ~ sets[h].frozen /\ op' = op /\ given' = given /\ tracked' = tracked /\ op.kind = "none"
    BY <1>1, StateFacts DEF Insert, Building, Free
  <1>6. writes + 1 \in Words /\ e \in Entry
    BY <1>3, <1>5 DEF Words, Entry
  <1>7. WellFormed(sets[h]) /\ sets[h].capacity > 0
    BY <1>1, <1>5, StateFacts
  <1>8. PICK s : s = sets[h]
    OBVIOUS
  <1>9. PICK x : x = r.set
    OBVIOUS
  <1>10. WellFormed(x) /\ x.capacity > 0 /\ x.frozen = s.frozen
    BY <1>4, <1>6, <1>7, <1>8, <1>9, InsertFacts
  <1>11. writes' \in 0 .. MaxWrites
    BY <1>4, <1>5
  <1>12. sets' = [sets EXCEPT ![h] = x] /\ ~ x.frozen
    BY <1>4, <1>5, <1>8, <1>9, <1>10
  <1>13. op' \in Calls /\ given' \subseteq 1 .. tracked
    BY <1>1, <1>5 DEF TypeOK
  <1>14. TypeOK' /\ FrozenIsSorted'
    BY <1>1, <1>5, <1>10, <1>11, <1>12, <1>13, TypedAgain
  <1> QED
    BY <1>5, <1>14, NoLoop

\* Only the value of one entry changes.
LEMMA ValueFacts ==
  ASSUME NEW s, WellFormed(s), NEW i \in 0 .. s.count - 1, NEW v \in Words, NEW x,
         x = [s EXCEPT !.values = [@ EXCEPT ![i] = v]]
  PROVE  /\ WellFormed(x) /\ x.count = s.count /\ x.capacity = s.capacity /\ x.frozen = s.frozen
         /\ At(x, i) = [At(s, i) EXCEPT !.value = v]
         /\ \A m \in 0 .. s.count - 1 : Key(x, m) = Key(s, m) /\ (m # i => At(x, m) = At(s, m))
  <1>1. /\ s \in AttrSet /\ s.values \in Blocks(Words \cup {Junk}, MaxEntries) /\ MaxEntries \in Nat
        /\ s.count \in Nat /\ s.capacity \in Nat /\ s.count <= s.capacity
        /\ DOMAIN s.names = 0 .. 2 * s.capacity - 1
        /\ 0 .. s.capacity - 1 \subseteq DOMAIN s.values
        /\ \A m \in 0 .. s.count - 1 : At(s, m) \in Entry
    BY SetFields DEF WellFormed
  <1>2. PICK values : values = [s.values EXCEPT ![i] = v]
    OBVIOUS
  <1>3. PICK m \in 0 .. MaxEntries : s.values \in [0 .. m - 1 -> Words \cup {Junk}]
    BY <1>1, BlockTyped
  <1>4. values \in [0 .. m - 1 -> Words \cup {Junk}] /\ DOMAIN values = DOMAIN s.values
    BY <1>2, <1>3
  <1>5. values \in Blocks(Words \cup {Junk}, MaxEntries)
    BY <1>1, <1>4, BlockTyped
  <1>6. x = [s EXCEPT !.values = values]
    BY <1>2
  <1>7. /\ x.names = s.names /\ x.values = values /\ x.count = s.count /\ x.capacity = s.capacity
        /\ x.frozen = s.frozen /\ x \in AttrSet
    BY <1>1, <1>5, <1>6 DEF AttrSet
  <1>8. \A n \in 0 .. s.count - 1 : n \in DOMAIN s.values
    <2>1. \A n \in 0 .. s.count - 1 : n \in 0 .. s.capacity - 1
      BY <1>1
    <2> QED
      BY <1>1, <2>1
  <1>9. values[i] = v /\ \A n \in 0 .. s.count - 1 : n # i => values[n] = s.values[n]
    BY <1>2, <1>3, <1>8
  <1>10. \A n : Key(x, n) = Key(s, n)
    BY <1>7 DEF Key
  <1>11. \A n \in 0 .. s.count - 1 : n # i => At(x, n) = At(s, n)
    BY <1>7, <1>9 DEF At
  <1>12. At(x, i) = [At(s, i) EXCEPT !.value = v]
    <2>1. PICK e \in Entry : e = At(s, i)
      BY <1>1
    <2>2. /\ e.key = s.names[i] /\ e.pos = s.names[s.capacity + i]
          /\ e = [key |-> e.key, pos |-> e.pos, value |-> e.value]
      BY <2>1 DEF At, Entry
    <2>3. At(x, i) = [key |-> e.key, pos |-> e.pos, value |-> v]
      BY <1>7, <1>9, <2>2 DEF At
    <2> QED
      BY <2>1, <2>2, <2>3
  <1>13. [At(s, i) EXCEPT !.value = v] \in Entry
    BY <1>1 DEF Entry
  <1>14. \A n \in 0 .. x.count - 1 : At(x, n) \in Entry
    BY <1>1, <1>7, <1>11, <1>12, <1>13
  <1>15. WellFormed(x)
    BY <1>1, <1>4, <1>7, <1>14 DEF WellFormed
  <1> QED
    BY <1>7, <1>10, <1>11, <1>12, <1>15

LEMMA SetValueKeeps ==
  ASSUME SetsInv, NEW h \in Handles, nn_attrset_set_value(h)
  PROVE  SetsInv'
  <1>1. TypeOK /\ FrozenIsSorted
    BY DEF SetsInv
  <1>2. PICK i \in 0 .. sets[h].count - 1 : sets' = [sets EXCEPT ![h].values[i] = writes + 1]
    BY DEF nn_attrset_set_value
  <1>3. /\ writes \in Nat /\ MaxWrites \in Nat /\ writes < MaxWrites /\ writes' = writes + 1
        /\ h \in given /\ sets[h].frozen /\ op' = op /\ given' = given /\ tracked' = tracked /\ op.kind = "none"
    BY <1>1, StateFacts DEF nn_attrset_set_value, Frozen, Free
  <1>4. PICK v \in Words : v = writes + 1
    BY <1>3 DEF Words
  <1>5. PICK s : s = sets[h]
    OBVIOUS
  <1>6. PICK x : x = [s EXCEPT !.values = [@ EXCEPT ![i] = v]]
    OBVIOUS
  <1>7. WellFormed(s) /\ s.capacity > 0 /\ i \in 0 .. s.count - 1 /\ Strictly(s, 0, s.count)
    BY <1>1, <1>2, <1>3, <1>5, StateFacts DEF FrozenIsSorted
  <1>8. /\ WellFormed(x) /\ x.count = s.count /\ x.capacity = s.capacity
        /\ \A m \in 0 .. s.count - 1 : Key(x, m) = Key(s, m)
    BY <1>6, <1>7, ValueFacts
  <1>9. Strictly(x, 0, x.count)
    BY <1>7, <1>8 DEF Strictly
  <1>10. sets' = [sets EXCEPT ![h] = x]
    BY <1>2, <1>4, <1>5, <1>6
  <1>11. op' \in Calls /\ given' \subseteq 1 .. tracked /\ writes' \in 0 .. MaxWrites
    BY <1>1, <1>3 DEF TypeOK
  <1>12. TypeOK' /\ FrozenIsSorted'
    BY <1>1, <1>3, <1>7, <1>8, <1>9, <1>10, <1>11, TypedAgain
  <1> QED
    BY <1>3, <1>12, NoLoop

\* Freezing: of one entry at once, of more by the sort.
LEMMA FreezeKeeps ==
  ASSUME SetsInv, NEW h \in Handles, Freeze(h)
  PROVE  SetsInv'
  <1>1. TypeOK /\ FrozenIsSorted
    BY DEF SetsInv
  <1>2. /\ h \in given /\ ~ sets[h].frozen /\ given' = given /\ tracked' = tracked /\ writes' = writes
        /\ op.kind = "none"
    BY DEF Freeze, Building, Free
  <1>3. /\ WellFormed(sets[h]) /\ sets[h].capacity > 0 /\ sets[h].count \in Nat /\ op \in Calls
        /\ given' \subseteq 1 .. tracked /\ writes' \in 0 .. MaxWrites /\ h \in 0 .. MaxSets
    BY <1>1, <1>2, StateFacts DEF TypeOK, Handles
  <1>4. CASE sets[h].count <= 1
    <2>1. sets' = [sets EXCEPT ![h].frozen = TRUE] /\ op' = op
      BY <1>4 DEF Freeze
    <2>2. PICK s : s = sets[h]
      OBVIOUS
    <2>3. PICK x : x = [s EXCEPT !.frozen = TRUE]
      OBVIOUS
    <2>4. s \in AttrSet
      BY <1>3, <2>2 DEF WellFormed
    <2>5. /\ x \in AttrSet /\ x.names = s.names /\ x.values = s.values /\ x.count = s.count
          /\ x.capacity = s.capacity
      BY <2>3, <2>4 DEF AttrSet
    <2>6. \A m : At(x, m) = At(s, m)
      BY <2>5 DEF At
    <2>7. WellFormed(x)
      BY <1>3, <2>2, <2>5, <2>6 DEF WellFormed
    <2>8. Strictly(x, 0, x.count)
      <3>1. x.count \in Nat /\ x.count <= 1
        BY <1>3, <1>4, <2>2, <2>5
      <3>2. \A m, n \in 0 .. x.count - 1 : ~ (m < n)
        BY <3>1
      <3> QED
        BY <3>2 DEF Strictly
    <2>9. sets' = [sets EXCEPT ![h] = x]
      BY <2>1, <2>2, <2>3
    <2>10. x.capacity > 0
      BY <1>3, <2>2, <2>5
    <2>11. TypeOK' /\ FrozenIsSorted'
      BY <1>1, <1>2, <1>3, <2>1, <2>7, <2>8, <2>9, <2>10, TypedAgain
    <2> QED
      BY <1>2, <2>1, <2>11, NoLoop
  <1>5. CASE ~ (sets[h].count <= 1)
    <2>1. sets' = sets /\ op' = [Call("sort", h) EXCEPT !.i = 1]
      BY <1>5 DEF Freeze
    <2>2. Call("sort", h) \in Calls /\ Call("sort", h).kind = "sort" /\ Call("sort", h).set = h
      BY <1>3, CallFacts
    <2>3. op' \in Calls /\ op'.kind = "sort" /\ op'.set = h /\ op'.i = 1
      BY <2>1, <2>2 DEF Calls
    <2>4. TypeOK' /\ FrozenIsSorted'
      BY <1>1, <1>2, <1>3, <2>1, <2>3, TypedAgain
    <2>5. \A s, x, y : x \in 0 .. 1 - 1 /\ y \in 0 .. 1 - 1 => ~ (x < y)
      OBVIOUS
    <2>6. 1 \in 1 .. sets[h].count /\ sets[h].count > 1
      BY <1>3, <1>5
    <2>7. SortInv'
      BY <1>2, <2>1, <2>3, <2>5, <2>6 DEF SortInv, S, Sorted
    <2> QED
      BY <2>3, <2>4, <2>7, LoopsApart
  <1> QED
    BY <1>4, <1>5

LEMMA qsortKeeps ==
  ASSUME SetsInv, qsort
  PROVE  SetsInv'
  <1>1. TypeOK /\ FrozenIsSorted /\ SortInv /\ op.kind = "sort"
    BY DEF SetsInv, qsort
  <1>2. /\ op.set \in given /\ ~ S.frozen /\ S.count > 1
        /\ given' = given /\ tracked' = tracked /\ writes' = writes
        /\ op' = Call("dedup", op.set)
    BY <1>1 DEF qsort, SortInv
  <1>3. PICK h \in Handles : h = op.set
    BY <1>1, <1>2, StateFacts
  <1>4. PICK s : s = S
    OBVIOUS
  <1>5. PICK place \in Sorting(s) : sets' = [sets EXCEPT ![h] = Rearranged(@, place)]
    BY <1>3, <1>4 DEF qsort
  <1>6. s = sets[h] /\ WellFormed(s) /\ s.capacity > 0 /\ s.count \in Nat
    BY <1>1, <1>2, <1>3, <1>4, StateFacts DEF S
  <1>7. PICK x : x = Rearranged(s, place)
    OBVIOUS
  <1>8. /\ place \in [0 .. s.count - 1 -> 0 .. s.count - 1]
        /\ \A m, n \in 0 .. s.count - 1 : m < n => cmp_tagged(s, place[m], place[n])
    BY DEF Sorting
  <1>9. /\ WellFormed(x) /\ x.count = s.count /\ x.capacity = s.capacity /\ x.frozen = s.frozen
        /\ \A m \in 0 .. s.count - 1 : At(x, m) = At(s, place[m])
    BY <1>6, <1>7, <1>8, RearrangedFacts
  <1>10. Sorted(x, 0, x.count)
    <2>1. ASSUME NEW m \in 0 .. s.count - 1
          PROVE  Key(x, m) = Key(s, place[m]) /\ Key(s, place[m]) \in Nat
      <3>1. PICK l \in 0 .. s.count - 1 : l = place[m]
        BY <1>8
      <3>2. At(x, m) = At(s, l)
        BY <1>9, <3>1
      <3>3. Key(x, m) = Key(s, l)
        BY <3>2, SameKey
      <3>4. Key(s, l) \in Nat
        BY <1>6, Keyed
      <3> QED
        BY <3>1, <3>3, <3>4
    <2> QED
      BY <1>8, <1>9, <2>1 DEF Sorted, cmp_tagged
  <1>11. sets' = [sets EXCEPT ![h] = x]
    BY <1>5, <1>6, <1>7
  <1>12. h \in 0 .. MaxSets /\ given' \subseteq 1 .. tracked /\ writes' \in 0 .. MaxWrites
    BY <1>1, <1>2, <1>3, StateFacts DEF Handles, TypeOK
  <1>13. /\ op' \in Calls /\ op'.kind = "dedup" /\ op'.set = h /\ op'.i = 0 /\ op'.j = 0
    BY <1>2, <1>3, <1>12, CallFacts
  <1>14. ~ x.frozen /\ x.capacity > 0
    BY <1>2, <1>4, <1>6, <1>9
  <1>15. TypeOK' /\ FrozenIsSorted'
    BY <1>1, <1>2, <1>9, <1>11, <1>12, <1>13, <1>14, TypedAgain
  <1>16. sets'[h] = x
    BY <1>1, <1>11 DEF TypeOK
  <1>17. DedupInv'
    <2>1. S' = x
      BY <1>13, <1>16 DEF S
    <2>2. 0 \in 0 .. x.count /\ 0 \in 0 .. 0 /\ x.count > 1 /\ 0 .. 0 - 1 = {}
      BY <1>2, <1>4, <1>6, <1>9
    <2>3. Strictly(x, 0, 0)
      BY <2>2 DEF Strictly
    <2> QED
      BY <1>2, <1>3, <1>10, <1>13, <1>14, <2>1, <2>2, <2>3 DEF DedupInv
  <1> QED
    BY <1>13, <1>15, <1>17, LoopsApart

LEMMA SortPickKeeps ==
  ASSUME SetsInv, SortPick
  PROVE  SetsInv'
  <1>1. TypeOK /\ FrozenIsSorted /\ SortInv /\ op.kind = "sort"
    BY DEF SetsInv, SortPick
  <1>2. /\ op.set \in given /\ ~ S.frozen /\ S.count > 1 /\ op.i \in 1 .. S.count /\ Sorted(S, 0, op.i)
        /\ sets' = sets /\ given' = given /\ tracked' = tracked /\ writes' = writes /\ op.i < S.count
        /\ op' = [op EXCEPT !.kind = "sift", !.j = op.i, !.entry = At(S, op.i)]
    BY <1>1 DEF SortPick, SortInv
  <1>3. WellFormed(S) /\ S.count \in Nat /\ op \in Calls /\ given' \subseteq 1 .. tracked
        /\ writes' \in 0 .. MaxWrites
    BY <1>1, <1>2, StateFacts DEF S, TypeOK
  <1>4. At(S, op.i) \in Entry
    BY <1>2, <1>3 DEF WellFormed
  <1>5. PICK e \in Entry : e = At(S, op.i)
    BY <1>4
  <1>6. op' = [op EXCEPT !.kind = "sift", !.j = op.i, !.entry = e]
    BY <1>2, <1>5
  <1>7. /\ op' \in Calls /\ op'.kind = "sift" /\ op'.set = op.set /\ op'.i = op.i /\ op'.j = op.i
        /\ op'.entry = e
    BY <1>3, <1>6 DEF Calls
  <1>8. TypeOK' /\ FrozenIsSorted'
    BY <1>1, <1>2, <1>3, <1>7, TypedAgain
  <1>9. SiftInv'
    <2>1. S' = S
      BY <1>2, <1>7 DEF S
    <2>2. PICK n \in Nat : n = op.i
      BY <1>3 DEF Calls
    <2>3. \A x, y \in (0 .. n) \ {n} : x < y => Key(S, x) <= Key(S, y)
      <3>1. \A x \in (0 .. n) \ {n} : x \in 0 .. n - 1
        OBVIOUS
      <3> QED
        BY <1>2, <2>2, <3>1 DEF Sorted
    <2>4. n + 1 .. n = {} /\ n \in 0 .. n /\ n \in 1 .. S.count - 1
      BY <1>2, <1>3, <2>2
    <2> QED
      BY <1>2, <1>7, <2>1, <2>2, <2>3, <2>4 DEF SiftInv
  <1> QED
    BY <1>7, <1>8, <1>9, LoopsApart

\* What a sift knows, and the write it makes.
LEMMA SiftFacts ==
  ASSUME SetsInv, op.kind = "sift", NEW e \in Entry, sets' = [sets EXCEPT ![op.set] = Put(@, op.j, e)],
         given' = given, tracked' = tracked, writes' = writes, op' \in Calls
  PROVE  /\ TypeOK' /\ FrozenIsSorted'
         /\ op.set \in given /\ WellFormed(S) /\ S.count \in Nat
         /\ op.i \in Nat /\ op.j \in Nat /\ 1 <= op.i /\ op.i < S.count /\ op.j <= op.i
         /\ op.entry \in Entry /\ ~ sets'[op.set].frozen
         /\ sets'[op.set].count = S.count
         /\ Key(sets'[op.set], op.j) = e.key
         /\ \A m \in 0 .. S.count - 1 : /\ Key(S, m) \in Nat
                                        /\ m # op.j => Key(sets'[op.set], m) = Key(S, m)
  <1>1. TypeOK /\ FrozenIsSorted /\ SiftInv
    BY DEF SetsInv
  <1>2. PICK h \in given : h = op.set
    BY <1>1 DEF SiftInv
  <1>3. PICK s : s = S
    OBVIOUS
  <1>4. /\ h \in Handles /\ s = sets[h] /\ WellFormed(s) /\ s.capacity > 0 /\ s.count \in Nat /\ s.capacity \in Nat
        /\ s.count <= s.capacity /\ given' \subseteq 1 .. tracked /\ writes' \in 0 .. MaxWrites
        /\ op.i \in Nat /\ op.j \in Nat /\ sets \in [Handles -> AttrSet]
    BY <1>1, <1>2, <1>3, StateFacts DEF S, TypeOK
  <1>5. op.i \in 1 .. s.count - 1 /\ op.j \in 0 .. op.i /\ ~ s.frozen /\ op.entry \in Entry
    BY <1>1, <1>3 DEF SiftInv
  <1>6. PICK j \in 0 .. s.capacity - 1 : j = op.j /\ j \in 0 .. s.count - 1
    BY <1>4, <1>5
  <1>7. PICK x : x = Put(s, j, e)
    OBVIOUS
  <1>8. /\ Roomy(x) /\ x.count = s.count /\ x.capacity = s.capacity /\ x.frozen = s.frozen
        /\ At(x, j) = e
        /\ \A m \in 0 .. s.capacity - 1 : m # j => At(x, m) = At(s, m)
    BY <1>4, <1>7, PutFacts, WellFormedIsRoomy
  <1>9. \A m \in 0 .. s.count - 1 : m \in 0 .. s.capacity - 1 /\ At(s, m) \in Entry /\ Key(s, m) \in Nat
    BY <1>4, Keyed, WellFormedIsRoomy
  <1>10. \A m \in 0 .. x.count - 1 : At(x, m) \in Entry
    BY <1>8, <1>9
  <1>11. WellFormed(x)
    BY <1>4, <1>8, <1>10, WellFormedIsRoomy
  <1>12. Key(x, j) = e.key /\ \A m \in 0 .. s.count - 1 : m # j => Key(x, m) = Key(s, m)
    BY <1>8, <1>9, SameKey DEF At, Key
  <1>13. sets' = [sets EXCEPT ![h] = x]
    BY <1>2, <1>3, <1>4, <1>6, <1>7
  <1>14. sets'[h] = x
    BY <1>4, <1>13
  <1>15. ~ x.frozen /\ x.capacity > 0
    BY <1>4, <1>5, <1>8
  <1>16. TypeOK' /\ FrozenIsSorted'
    BY <1>1, <1>4, <1>11, <1>13, <1>15, TypedAgain
  <1>17. 1 <= op.i /\ op.i < s.count /\ op.j <= op.i
    BY <1>4, <1>5
  <1> QED
    BY <1>2, <1>3, <1>4, <1>5, <1>6, <1>8, <1>9, <1>12, <1>14, <1>15, <1>16, <1>17

LEMMA SortShiftKeeps ==
  ASSUME SetsInv, SortShift
  PROVE  SetsInv'
  <1>1. TypeOK /\ FrozenIsSorted /\ SiftInv /\ op.kind = "sift"
    BY DEF SetsInv, SortShift
  <1>2. PICK s : s = S
    OBVIOUS
  <1>3. /\ op.set \in given /\ op.i \in 1 .. s.count - 1 /\ op.j \in 0 .. op.i /\ op.entry \in Entry
        /\ \A x, y \in (0 .. op.i) \ {op.j} : x < y => Key(s, x) <= Key(s, y)
        /\ \A x \in op.j + 1 .. op.i : Key(s, x) > op.entry.key
    BY <1>1, <1>2 DEF SiftInv
  <1>4. /\ op.j > 0 /\ Key(s, op.j - 1) > op.entry.key
        /\ sets' = [sets EXCEPT ![op.set] = Put(@, op.j, At(s, op.j - 1))]
        /\ op' = [op EXCEPT !.j = op.j - 1]
        /\ given' = given /\ tracked' = tracked /\ writes' = writes
    BY <1>1, <1>2, <1>3, StateFacts DEF SortShift, S, TypeOK
  <1>5. WellFormed(s) /\ s.count \in Nat /\ op.i \in Nat /\ op.j \in Nat /\ op \in Calls
    BY <1>1, <1>2, <1>3, StateFacts DEF S, TypeOK
  <1>6. PICK i \in Nat, j \in Nat : i = op.i /\ j = op.j /\ 1 <= i /\ i < s.count /\ j <= i /\ j > 0
                                    /\ j - 1 \in Nat /\ j - 1 \in 0 .. s.count - 1
    BY <1>3, <1>4, <1>5
  <1>7. PICK e \in Entry : e = At(s, j - 1)
    BY <1>5, <1>6 DEF WellFormed
  <1>8. e.key = Key(s, j - 1)
    BY <1>5, <1>6, <1>7, Keyed
  <1>9. op' \in Calls /\ op'.kind = "sift" /\ op'.set = op.set /\ op'.i = i /\ op'.j = j - 1 /\ op'.entry = op.entry
    <2>1. op' = [op EXCEPT !.j = j - 1]
      BY <1>4, <1>6
    <2> QED
      BY <1>1, <1>5, <1>6, <2>1 DEF Calls
  <1>10. sets' = [sets EXCEPT ![op.set] = Put(@, op.j, e)]
    BY <1>4, <1>6, <1>7
  <1>11. PICK x : x = sets'[op.set]
    OBVIOUS
  <1>12. /\ TypeOK' /\ FrozenIsSorted' /\ ~ x.frozen /\ x.count = s.count /\ Key(x, j) = e.key
         /\ \A m \in 0 .. s.count - 1 : Key(s, m) \in Nat /\ (m # j => Key(x, m) = Key(s, m))
    BY <1>1, <1>2, <1>4, <1>6, <1>9, <1>10, <1>11, SiftFacts
  <1>13. PICK k : k = op.entry.key
    OBVIOUS
  <1>14. ASSUME NEW m \in (0 .. i) \ {j - 1}, NEW n \in (0 .. i) \ {j - 1}, m < n
         PROVE  Key(x, m) <= Key(x, n)
    <2>1. m \in Nat /\ n \in Nat /\ m <= i /\ n <= i /\ m # j - 1 /\ n # j - 1
          /\ m \in 0 .. s.count - 1 /\ n \in 0 .. s.count - 1
      BY <1>5, <1>6
    <2>2. CASE m = j
      <3>1. j - 1 \in (0 .. i) \ {j} /\ n \in (0 .. i) \ {j} /\ j - 1 < n
        BY <1>6, <1>14, <2>1, <2>2
      <3> QED
        BY <1>3, <1>6, <1>8, <1>12, <2>1, <2>2, <3>1
    <2>3. CASE n = j
      <3>1. j - 1 \in (0 .. i) \ {j} /\ m \in (0 .. i) \ {j} /\ m < j - 1
        BY <1>6, <1>14, <2>1, <2>3
      <3> QED
        BY <1>3, <1>6, <1>8, <1>12, <2>1, <2>3, <3>1
    <2>4. CASE m # j /\ n # j
      <3>1. m \in (0 .. i) \ {j} /\ n \in (0 .. i) \ {j}
        BY <2>1, <2>4
      <3> QED
        BY <1>3, <1>6, <1>12, <1>14, <2>1, <2>4, <3>1
    <2> QED
      BY <2>2, <2>3, <2>4
  <1>15. ASSUME NEW m \in (j - 1) + 1 .. i PROVE Key(x, m) > k
    <2>1. m \in Nat /\ m <= i /\ j <= m /\ m \in 0 .. s.count - 1
      BY <1>5, <1>6
    <2>2. CASE m = j
      BY <1>4, <1>6, <1>8, <1>12, <1>13, <2>2
    <2>3. CASE m # j
      <3>1. m \in j + 1 .. i
        BY <1>6, <2>1, <2>3
      <3> QED
        BY <1>3, <1>6, <1>12, <1>13, <2>1, <2>3, <3>1
    <2> QED
      BY <2>2, <2>3
  <1>16. i \in 1 .. x.count - 1 /\ j - 1 \in 0 .. i
    BY <1>5, <1>6, <1>12
  <1>17. SiftInv'
    <2>1. S' = x
      BY <1>9, <1>11 DEF S
    <2> QED
      BY <1>3, <1>4, <1>9, <1>12, <1>13, <1>14, <1>15, <1>16, <2>1 DEF SiftInv
  <1> QED
    BY <1>9, <1>12, <1>17, LoopsApart

LEMMA SortPlaceKeeps ==
  ASSUME SetsInv, SortPlace
  PROVE  SetsInv'
  <1>1. TypeOK /\ FrozenIsSorted /\ SiftInv /\ op.kind = "sift"
    BY DEF SetsInv, SortPlace
  <1>2. PICK s : s = S
    OBVIOUS
  <1>3. /\ op.set \in given /\ op.i \in 1 .. s.count - 1 /\ op.j \in 0 .. op.i /\ op.entry \in Entry
        /\ \A x, y \in (0 .. op.i) \ {op.j} : x < y => Key(s, x) <= Key(s, y)
        /\ \A x \in op.j + 1 .. op.i : Key(s, x) > op.entry.key
    BY <1>1, <1>2 DEF SiftInv
  <1>4. /\ op.j > 0 => Key(s, op.j - 1) <= op.entry.key
        /\ sets' = [sets EXCEPT ![op.set] = Put(@, op.j, op.entry)]
        /\ op' = [op EXCEPT !.kind = "sort", !.i = op.i + 1]
        /\ given' = given /\ tracked' = tracked /\ writes' = writes
    BY <1>2 DEF SortPlace
  <1>5. WellFormed(s) /\ s.count \in Nat /\ op.i \in Nat /\ op.j \in Nat /\ op \in Calls
    BY <1>1, <1>2, <1>3, StateFacts DEF S, TypeOK
  <1>6. PICK i \in Nat, j \in Nat : i = op.i /\ j = op.j /\ 1 <= i /\ i < s.count /\ j <= i
    BY <1>3, <1>5
  <1>7. PICK k : k = op.entry.key
    OBVIOUS
  <1>8. k \in Nat
    BY <1>3, <1>7, AttrSetSizes DEF Entry
  <1>9. op' \in Calls /\ op'.kind = "sort" /\ op'.set = op.set /\ op'.i = i + 1
    <2>1. PICK n \in Nat : n = i + 1
      OBVIOUS
    <2>2. op' = [op EXCEPT !.kind = "sort", !.i = n]
      BY <1>4, <1>6, <2>1
    <2>3. op' \in Calls /\ op'.kind = "sort" /\ op'.set = op.set /\ op'.i = n
      BY <1>5, <2>2 DEF Calls
    <2> QED
      BY <2>1, <2>3
  <1>11. PICK x : x = sets'[op.set]
    OBVIOUS
  <1>12. /\ TypeOK' /\ FrozenIsSorted' /\ ~ x.frozen /\ x.count = s.count /\ Key(x, j) = k
         /\ \A m \in 0 .. s.count - 1 : Key(s, m) \in Nat /\ (m # j => Key(x, m) = Key(s, m))
    BY <1>1, <1>2, <1>3, <1>4, <1>6, <1>7, <1>9, <1>11, SiftFacts
  <1>14. ASSUME NEW m \in 0 .. (i + 1) - 1, NEW n \in 0 .. (i + 1) - 1, m < n
         PROVE  Key(x, m) <= Key(x, n)
    <2>1. m \in Nat /\ n \in Nat /\ m <= i /\ n <= i
          /\ m \in 0 .. s.count - 1 /\ n \in 0 .. s.count - 1
      BY <1>5, <1>6
    <2>2. CASE m = j
      <3>1. n \in j + 1 .. i /\ n # j
        BY <1>6, <1>14, <2>1, <2>2
      <3>2. Key(s, n) > k /\ Key(s, n) \in Nat
        BY <1>3, <1>6, <1>7, <1>12, <2>1, <3>1
      <3>3. Key(x, m) = k /\ Key(x, n) = Key(s, n)
        BY <1>12, <2>1, <2>2, <3>1
      <3> QED
        BY <1>8, <3>2, <3>3
    <2>3. CASE n = j
      <3>1. j > 0 /\ j - 1 \in (0 .. i) \ {j} /\ m \in (0 .. i) \ {j} /\ m <= j - 1 /\ j - 1 \in 0 .. s.count - 1
        BY <1>5, <1>6, <1>14, <2>1, <2>3
      <3>2. Key(s, m) <= Key(s, j - 1) /\ Key(s, j - 1) <= k /\ Key(s, m) \in Nat /\ Key(s, j - 1) \in Nat
        BY <1>3, <1>4, <1>6, <1>7, <1>12, <2>1, <3>1
      <3>3. Key(x, m) = Key(s, m) /\ Key(x, n) = k
        BY <1>12, <2>1, <2>3, <3>1
      <3> QED
        BY <1>8, <3>2, <3>3
    <2>4. CASE m # j /\ n # j
      <3>1. m \in (0 .. i) \ {j} /\ n \in (0 .. i) \ {j}
        BY <2>1, <2>4
      <3> QED
        BY <1>3, <1>6, <1>12, <1>14, <2>1, <2>4, <3>1
    <2> QED
      BY <2>2, <2>3, <2>4
  <1>16. i + 1 \in 1 .. x.count /\ x.count > 1
    BY <1>5, <1>6, <1>12
  <1>17. SortInv'
    <2>1. S' = x
      BY <1>9, <1>11 DEF S
    <2>2. Sorted(x, 0, i + 1)
      BY <1>14 DEF Sorted
    <2> QED
      BY <1>3, <1>4, <1>9, <1>12, <1>16, <2>1, <2>2 DEF SortInv
  <1> QED
    BY <1>9, <1>12, <1>17, LoopsApart

LEMMA SortDoneKeeps ==
  ASSUME SetsInv, SortDone
  PROVE  SetsInv'
  <1>1. TypeOK /\ FrozenIsSorted /\ SortInv /\ op.kind = "sort"
    BY DEF SetsInv, SortDone
  <1>2. /\ op.set \in given /\ ~ S.frozen /\ S.count > 1 /\ op.i \in 1 .. S.count /\ Sorted(S, 0, op.i)
        /\ sets' = sets /\ given' = given /\ tracked' = tracked /\ writes' = writes /\ op.i >= S.count
        /\ op' = Call("dedup", op.set)
    BY <1>1 DEF SortDone, SortInv
  <1>3. S.count \in Nat /\ given' \subseteq 1 .. tracked /\ writes' \in 0 .. MaxWrites /\ op.set \in 0 .. MaxSets
        /\ op.i \in Nat
    <2>1. op.set \in Handles /\ op.i \in Nat
      BY <1>1, <1>2, StateFacts
    <2>2. S.count \in Nat
      BY <1>1, <2>1, StateFacts DEF S
    <2> QED
      BY <1>1, <1>2, <2>1, <2>2 DEF TypeOK, Handles
  <1>4. op.i = S.count
    BY <1>2, <1>3
  <1>5. op' \in Calls /\ op'.kind = "dedup" /\ op'.set = op.set /\ op'.i = 0 /\ op'.j = 0
    BY <1>2, <1>3, CallFacts
  <1>6. TypeOK' /\ FrozenIsSorted'
    BY <1>1, <1>2, <1>3, <1>5, TypedAgain
  <1>7. DedupInv'
    <2>1. S' = S
      BY <1>2, <1>5 DEF S
    <2>2. 0 \in 0 .. S.count /\ 0 \in 0 .. 0 /\ 0 .. 0 - 1 = {}
      BY <1>3
    <2>3. Strictly(S, 0, 0)
      BY <2>2 DEF Strictly
    <2> QED
      BY <1>2, <1>4, <1>5, <2>1, <2>2, <2>3 DEF DedupInv
  <1> QED
    BY <1>5, <1>6, <1>7, LoopsApart

\* What a deduplication knows.
LEMMA DedupFacts ==
  ASSUME SetsInv, op.kind = "dedup"
  PROVE  /\ op.set \in given /\ op.set \in Handles /\ op.set \in 0 .. MaxSets
         /\ ~ S.frozen /\ WellFormed(S) /\ S.count \in Nat /\ S.capacity \in Nat
         /\ S.capacity > 0 /\ S.count <= S.capacity /\ S.count > 1
         /\ op.i \in Nat /\ op.j \in Nat /\ op.i <= S.count /\ op.j <= op.i
         /\ Strictly(S, 0, op.j) /\ Sorted(S, op.i, S.count)
         /\ \A x \in 0 .. op.j - 1, y \in op.i .. S.count - 1 : Key(S, x) < Key(S, y)
         /\ \A x \in 0 .. S.count - 1 : Key(S, x) \in Nat
         /\ op \in Calls /\ given \subseteq 1 .. tracked /\ writes \in 0 .. MaxWrites
  <1>1. TypeOK /\ DedupInv
    BY DEF SetsInv
  <1>2. /\ op.set \in given /\ ~ S.frozen /\ op.i \in 0 .. S.count /\ op.j \in 0 .. op.i /\ S.count > 1
        /\ Strictly(S, 0, op.j) /\ Sorted(S, op.i, S.count)
        /\ \A x \in 0 .. op.j - 1, y \in op.i .. S.count - 1 : Key(S, x) < Key(S, y)
    BY <1>1 DEF DedupInv
  <1>3. op.set \in Handles /\ op.i \in Nat /\ op.j \in Nat
    BY <1>1, <1>2, StateFacts
  <1>4. WellFormed(S) /\ S.count \in Nat /\ S.capacity \in Nat /\ S.capacity > 0 /\ S.count <= S.capacity
    BY <1>1, <1>2, <1>3, StateFacts DEF S
  <1>5. \A x \in 0 .. S.count - 1 : Key(S, x) \in Nat
    BY <1>4, Keyed
  <1>6. op.set \in 0 .. MaxSets /\ op \in Calls /\ given \subseteq 1 .. tracked /\ writes \in 0 .. MaxWrites
    BY <1>1, <1>3 DEF TypeOK, Calls
  <1>7. op.i <= S.count /\ op.j <= op.i
    BY <1>2, <1>3, <1>4
  <1> QED
    BY <1>2, <1>3, <1>4, <1>5, <1>6, <1>7

LEMMA DedupSkipKeeps ==
  ASSUME SetsInv, DedupSkip
  PROVE  SetsInv'
  <1>1. TypeOK /\ FrozenIsSorted /\ op.kind = "dedup"
    BY DEF SetsInv, DedupSkip
  <1>2. /\ sets' = sets /\ given' = given /\ tracked' = tracked /\ writes' = writes /\ op.i < S.count
        /\ op' = [op EXCEPT !.i = op.i + 1]
    BY DEF DedupSkip
  <1>3. PICK s : s = S
    OBVIOUS
  <1>4. PICK i \in Nat, j \in Nat : i = op.i /\ j = op.j
    BY <1>1, DedupFacts
  <1>5. /\ op.set \in given /\ ~ s.frozen /\ s.count \in Nat /\ s.count > 1 /\ i < s.count /\ j <= i
        /\ Strictly(s, 0, j) /\ Sorted(s, i, s.count)
        /\ \A x \in 0 .. j - 1, y \in i .. s.count - 1 : Key(s, x) < Key(s, y)
        /\ op \in Calls /\ given \subseteq 1 .. tracked /\ writes \in 0 .. MaxWrites
    BY <1>1, <1>2, <1>3, <1>4, DedupFacts
  <1>6. PICK n \in Nat : n = i + 1
    OBVIOUS
  <1>7. op' \in Calls /\ op'.kind = "dedup" /\ op'.set = op.set /\ op'.i = n /\ op'.j = j
    <2>1. op' = [op EXCEPT !.i = n]
      BY <1>2, <1>4, <1>6
    <2> QED
      BY <1>1, <1>4, <1>5, <2>1 DEF Calls
  <1>8. TypeOK' /\ FrozenIsSorted'
    BY <1>1, <1>2, <1>5, <1>7, TypedAgain
  <1>9. DedupInv'
    <2>1. S' = s
      BY <1>2, <1>3, <1>7 DEF S
    <2>2. n \in 0 .. s.count /\ j \in 0 .. n /\ \A y \in n .. s.count - 1 : y \in i .. s.count - 1
      BY <1>5, <1>6
    <2>3. Sorted(s, n, s.count)
      BY <1>5, <2>2 DEF Sorted
    <2>4. \A x \in 0 .. j - 1, y \in n .. s.count - 1 : Key(s, x) < Key(s, y)
      BY <1>5, <2>2
    <2> QED
      BY <1>2, <1>5, <1>7, <2>1, <2>2, <2>3, <2>4 DEF DedupInv
  <1> QED
    BY <1>7, <1>8, <1>9, LoopsApart

LEMMA DedupKeepKeeps ==
  ASSUME SetsInv, DedupKeep
  PROVE  SetsInv'
  <1>1. TypeOK /\ FrozenIsSorted /\ op.kind = "dedup"
    BY DEF SetsInv, DedupKeep
  <1>2. PICK h \in Handles : h = op.set
    BY <1>1, DedupFacts
  <1>3. PICK s : s = S
    OBVIOUS
  <1>4. PICK i \in Nat, j \in Nat : i = op.i /\ j = op.j
    BY <1>1, DedupFacts
  <1>5. /\ given' = given /\ tracked' = tracked /\ writes' = writes /\ i < s.count
        /\ op' = [op EXCEPT !.i = op.i + 1, !.j = op.j + 1]
        /\ sets' = [sets EXCEPT ![h] = Put(@, j, At(@, i))]
        /\ ~ (i + 1 < s.count /\ Key(s, i) = Key(s, i + 1))
    BY <1>2, <1>3, <1>4 DEF DedupKeep, SameKeyNext
  <1>6. /\ h \in given /\ s = sets[h] /\ ~ s.frozen /\ WellFormed(s) /\ s.count \in Nat /\ s.capacity \in Nat
        /\ s.capacity > 0 /\ s.count <= s.capacity /\ s.count > 1
        /\ j <= i /\ Strictly(s, 0, j) /\ Sorted(s, i, s.count)
        /\ \A x \in 0 .. j - 1, y \in i .. s.count - 1 : Key(s, x) < Key(s, y)
        /\ \A x \in 0 .. s.count - 1 : Key(s, x) \in Nat
        /\ op \in Calls /\ given \subseteq 1 .. tracked /\ writes \in 0 .. MaxWrites
    BY <1>1, <1>2, <1>3, <1>4, DedupFacts DEF S
  <1>7. i \in 0 .. s.count - 1 /\ j \in 0 .. s.count - 1 /\ j \in 0 .. s.capacity - 1
    BY <1>5, <1>6
  <1>8. PICK e \in Entry : e = At(s, i)
    BY <1>6, <1>7 DEF WellFormed
  <1>9. PICK x : x = Put(s, j, e)
    OBVIOUS
  <1>10. /\ Roomy(x) /\ x.count = s.count /\ x.capacity = s.capacity /\ x.frozen = s.frozen
         /\ At(x, j) = e
         /\ \A m \in 0 .. s.capacity - 1 : m # j => At(x, m) = At(s, m)
    BY <1>6, <1>7, <1>9, PutFacts, WellFormedIsRoomy
  <1>11. \A m \in 0 .. s.count - 1 : m \in 0 .. s.capacity - 1 /\ At(s, m) \in Entry
    BY <1>6 DEF WellFormed
  <1>12. \A m \in 0 .. x.count - 1 : At(x, m) \in Entry
    BY <1>10, <1>11
  <1>13. WellFormed(x)
    BY <1>6, <1>10, <1>12, WellFormedIsRoomy
  <1>14. Key(x, j) = Key(s, i) /\ \A m \in 0 .. s.count - 1 : m # j => Key(x, m) = Key(s, m)
    BY <1>8, <1>10, <1>11, SameKey
  <1>15. sets' = [sets EXCEPT ![h] = x] /\ ~ x.frozen /\ x.capacity > 0
    BY <1>5, <1>6, <1>8, <1>9, <1>10
  <1>16. sets'[h] = x
    BY <1>1, <1>15 DEF TypeOK
  <1>17. PICK n \in Nat, m \in Nat : n = i + 1 /\ m = j + 1
    OBVIOUS
  <1>18. op' \in Calls /\ op'.kind = "dedup" /\ op'.set = h /\ op'.i = n /\ op'.j = m
    <2>1. op' = [op EXCEPT !.i = n, !.j = m]
      BY <1>4, <1>5, <1>17
    <2> QED
      BY <1>1, <1>2, <1>6, <2>1 DEF Calls
  <1>19. TypeOK' /\ FrozenIsSorted'
    BY <1>1, <1>5, <1>6, <1>13, <1>15, <1>18, TypedAgain
  <1>20. ASSUME NEW y \in n .. s.count - 1
         PROVE  /\ y \in 0 .. s.count - 1 /\ y \in i .. s.count - 1 /\ Key(x, y) = Key(s, y)
                /\ Key(s, i) < Key(s, y)
    <2>1. y \in Nat /\ y \in 0 .. s.count - 1 /\ y \in i .. s.count - 1 /\ y # j /\ y # i /\ i < y
          /\ i + 1 < s.count /\ i + 1 \in i .. s.count - 1 /\ i + 1 \in 0 .. s.count - 1 /\ i < i + 1
          /\ i \in i .. s.count - 1
      BY <1>5, <1>6, <1>17
    <2>2. Key(s, i) <= Key(s, i + 1) /\ Key(s, i) # Key(s, i + 1)
      BY <1>5, <1>6, <2>1 DEF Sorted
    <2>3. Key(s, i + 1) <= Key(s, y)
      <3>1. CASE y = i + 1
        BY <1>6, <2>1, <3>1
      <3>2. CASE y # i + 1
        <4>1. i + 1 < y
          BY <2>1, <3>2
        <4> QED
          BY <1>6, <2>1, <4>1 DEF Sorted
      <3> QED
        BY <3>1, <3>2
    <2>4. Key(s, i) \in Nat /\ Key(s, i + 1) \in Nat /\ Key(s, y) \in Nat
      BY <1>6, <1>7, <2>1
    <2>5. Key(s, i) < Key(s, y)
      BY <2>2, <2>3, <2>4
    <2> QED
      BY <1>14, <2>1, <2>5
  <1>21. ASSUME NEW y \in 0 .. m - 1
         PROVE  (y = j /\ Key(x, y) = Key(s, i)) \/ (y \in 0 .. j - 1 /\ Key(x, y) = Key(s, y))
    <2>1. y = j \/ (y \in 0 .. j - 1 /\ y # j /\ y \in 0 .. s.count - 1)
      BY <1>6, <1>7, <1>17
    <2> QED
      BY <1>14, <2>1
  <1>22. i \in i .. s.count - 1 /\ \A y \in 0 .. j - 1 : ~ (j < y)
    BY <1>5, <1>6
  <1>23. Strictly(x, 0, m)
    <2> SUFFICES ASSUME NEW y \in 0 .. m - 1, NEW z \in 0 .. m - 1, y < z
                 PROVE  Key(x, y) < Key(x, z)
      BY DEF Strictly
    <2>1. CASE z = j /\ Key(x, z) = Key(s, i)
      <3>1. y \in 0 .. j - 1 /\ Key(x, y) = Key(s, y)
        BY <1>21, <2>1
      <3> QED
        BY <1>6, <1>22, <2>1, <3>1
    <2>2. CASE z \in 0 .. j - 1 /\ Key(x, z) = Key(s, z)
      <3>1. y \in 0 .. j - 1 /\ Key(x, y) = Key(s, y)
        BY <1>21, <1>22, <2>2
      <3> QED
        BY <1>6, <2>2, <3>1 DEF Strictly
    <2> QED
      BY <1>21, <2>1, <2>2
  <1>24. Sorted(x, n, s.count)
    BY <1>6, <1>20 DEF Sorted
  <1>25. \A y \in 0 .. m - 1, z \in n .. s.count - 1 : Key(x, y) < Key(x, z)
    <2> SUFFICES ASSUME NEW y \in 0 .. m - 1, NEW z \in n .. s.count - 1
                 PROVE  Key(x, y) < Key(x, z)
      OBVIOUS
    <2>1. z \in i .. s.count - 1 /\ Key(x, z) = Key(s, z) /\ Key(s, i) < Key(s, z)
      BY <1>20
    <2> QED
      BY <1>6, <1>21, <2>1
  <1>26. DedupInv'
    <2>1. S' = x
      BY <1>16, <1>18 DEF S
    <2>2. n \in 0 .. s.count /\ m \in 0 .. n
      BY <1>5, <1>6, <1>17
    <2> QED
      BY <1>5, <1>6, <1>10, <1>15, <1>18, <1>23, <1>24, <1>25, <2>1, <2>2 DEF DedupInv
  <1> QED
    BY <1>18, <1>19, <1>26, LoopsApart

LEMMA DedupDoneKeeps ==
  ASSUME SetsInv, DedupDone
  PROVE  SetsInv'
  <1>1. TypeOK /\ FrozenIsSorted /\ op.kind = "dedup"
    BY DEF SetsInv, DedupDone
  <1>2. PICK h \in Handles : h = op.set
    BY <1>1, DedupFacts
  <1>3. PICK s : s = S
    OBVIOUS
  <1>4. PICK j \in Nat : j = op.j
    BY <1>1, DedupFacts
  <1>5. /\ given' = given /\ tracked' = tracked /\ writes' = writes /\ op' = Idle
        /\ sets' = [sets EXCEPT ![h].count = j, ![h].frozen = TRUE]
    BY <1>2, <1>4 DEF DedupDone
  <1>6. /\ s = sets[h] /\ WellFormed(s) /\ s.count \in Nat /\ s.capacity \in Nat
        /\ s.capacity > 0 /\ s.count <= s.capacity /\ j <= s.count /\ Strictly(s, 0, j)
        /\ given \subseteq 1 .. tracked /\ writes \in 0 .. MaxWrites
    <2>1. op.i \in Nat /\ op.i <= S.count /\ op.j <= op.i /\ S.count \in Nat
      BY <1>1, DedupFacts
    <2>2. j <= s.count
      BY <1>3, <1>4, <2>1
    <2> QED
      BY <1>1, <1>2, <1>3, <1>4, <2>2, DedupFacts DEF S
  <1>7. PICK x : x = [s EXCEPT !.count = j, !.frozen = TRUE]
    OBVIOUS
  <1>8. s \in AttrSet /\ s.count <= MaxEntries /\ MaxEntries \in Nat
    BY <1>6, SetFields DEF WellFormed
  <1>9. j \in 0 .. MaxEntries
    BY <1>6, <1>8
  <1>10. /\ x \in AttrSet /\ x.names = s.names /\ x.values = s.values /\ x.count = j
         /\ x.capacity = s.capacity /\ x.frozen = TRUE
    BY <1>7, <1>8, <1>9 DEF AttrSet
  <1>11. \A m : At(x, m) = At(s, m) /\ Key(x, m) = Key(s, m)
    BY <1>10 DEF At, Key
  <1>12. WellFormed(x)
    <2>1. \A m \in 0 .. j - 1 : m \in 0 .. s.count - 1
      BY <1>6
    <2>2. x.count <= x.capacity
      BY <1>6, <1>10
    <2> QED
      BY <1>6, <1>10, <1>11, <2>1, <2>2 DEF WellFormed
  <1>13. Strictly(x, 0, x.count) /\ x.capacity > 0
    BY <1>6, <1>10, <1>11 DEF Strictly
  <1>14. sets' = [sets EXCEPT ![h] = x]
    BY <1>1, <1>5, <1>6, <1>7 DEF TypeOK
  <1>15. op' \in Calls /\ op'.kind = "none"
    BY <1>5, IdleFacts
  <1>16. TypeOK' /\ FrozenIsSorted'
    BY <1>1, <1>5, <1>6, <1>12, <1>13, <1>14, <1>15, TypedAgain
  <1> QED
    BY <1>15, <1>16, NoLoop

\* The search, between two places of one frozen set.
LEMMA SearchBegins ==
  ASSUME SetsInv, NEW h \in Handles, NEW k \in Lookups, Search(h, k)
  PROVE  SetsInv'
  <1>1. TypeOK /\ FrozenIsSorted /\ k \in Keys
    BY AttrSetSizes DEF SetsInv
  <1>2. /\ h \in given /\ sets[h].frozen /\ sets' = sets /\ given' = given /\ tracked' = tracked
        /\ writes' = writes /\ op' = [Call("search", h) EXCEPT !.j = sets[h].count, !.keys = {k}]
    BY DEF Search, Frozen
  <1>3. /\ sets[h].count \in Nat /\ h \in 0 .. MaxSets /\ given \subseteq 1 .. tracked
        /\ writes \in 0 .. MaxWrites
    BY <1>1, StateFacts DEF Handles, TypeOK
  <1>4. PICK c : c = Call("search", h)
    OBVIOUS
  <1>5. c \in Calls /\ c.kind = "search" /\ c.set = h /\ c.i = 0
    BY <1>3, <1>4, CallFacts
  <1>6. PICK n \in Nat : n = sets[h].count
    BY <1>3
  <1>7. op' = [c EXCEPT !.j = n, !.keys = {k}]
    BY <1>2, <1>4, <1>6
  <1>8. /\ op' \in Calls /\ op'.kind = "search" /\ op'.set = h /\ op'.i = 0 /\ op'.j = n /\ op'.keys = {k}
    BY <1>1, <1>5, <1>7 DEF Calls
  <1>9. TypeOK' /\ FrozenIsSorted'
    BY <1>1, <1>2, <1>3, <1>8, TypedAgain
  <1>10. SearchInv'
    <2>1. S' = sets[h]
      BY <1>2, <1>8 DEF S
    <2>2. 0 .. 0 - 1 = {} /\ n .. n - 1 = {}
      OBVIOUS
    <2> QED
      BY <1>1, <1>2, <1>6, <1>8, <2>1, <2>2 DEF SearchInv, Frozen
  <1> QED
    BY <1>8, <1>9, <1>10, LoopsApart

\* The middle is between the two places, and the key that is looked for is one.
LEMMA SearchFacts ==
  ASSUME SetsInv, op.kind = "search"
  PROVE  /\ op.set \in given /\ op.set \in Handles /\ op.set \in 0 .. MaxSets
         /\ S.frozen /\ WellFormed(S) /\ S.count \in Nat /\ Strictly(S, 0, S.count)
         /\ op.i \in Nat /\ op.j \in Nat /\ op.i <= op.j /\ op.j <= S.count
         /\ op.i < op.j => Mid \in Nat /\ op.i <= Mid /\ Mid < op.j /\ Mid \in 0 .. S.count - 1
         /\ Sought \in Keys /\ Sought \in Nat /\ op.keys = {Sought}
         /\ \A x \in 0 .. S.count - 1 : Key(S, x) \in Nat
         /\ \A x \in 0 .. op.i - 1 : Key(S, x) < Sought
         /\ \A x \in op.j .. S.count - 1 : Sought < Key(S, x)
         /\ op \in Calls /\ given \subseteq 1 .. tracked /\ writes \in 0 .. MaxWrites
  <1>1. TypeOK /\ FrozenIsSorted /\ SearchInv
    BY DEF SetsInv
  <1>2. /\ op.set \in given /\ S.frozen /\ op.i <= op.j /\ op.j <= S.count
        /\ \A x \in 0 .. op.i - 1 : Key(S, x) < Sought
        /\ \A x \in op.j .. S.count - 1 : Sought < Key(S, x)
    BY <1>1 DEF SearchInv, Frozen, S
  <1>3. PICK k \in Keys : op.keys = {k}
    BY <1>1 DEF SearchInv
  <1>4. Sought = k
    BY <1>3 DEF Sought
  <1>5. op.set \in Handles /\ op.i \in Nat /\ op.j \in Nat
    BY <1>1, <1>2, StateFacts
  <1>6. WellFormed(S) /\ S.count \in Nat
    BY <1>1, <1>5, StateFacts DEF S
  <1>7. Strictly(S, 0, S.count)
    BY <1>1, <1>2, <1>5 DEF FrozenIsSorted, S
  <1>8. ASSUME op.i < op.j
        PROVE  Mid \in Nat /\ op.i <= Mid /\ Mid < op.j /\ Mid \in 0 .. S.count - 1
    <2>1. PICK i \in Nat, j \in Nat, n \in Nat : i = op.i /\ j = op.j /\ n = S.count
      BY <1>5, <1>6
    <2>2. PICK half : half = (j - i) \div 2
      OBVIOUS
    <2>3. half \in Nat /\ half < j - i
      BY <1>8, <2>1, <2>2
    <2>4. Mid = i + half
      BY <2>1, <2>2 DEF Mid
    <2> QED
      BY <1>2, <1>8, <2>1, <2>3, <2>4
  <1>9. \A x \in 0 .. S.count - 1 : Key(S, x) \in Nat
    BY <1>6, Keyed
  <1>10. op.set \in 0 .. MaxSets /\ op \in Calls /\ given \subseteq 1 .. tracked /\ writes \in 0 .. MaxWrites
    BY <1>1, <1>5 DEF TypeOK, Calls
  <1> QED
    BY <1>2, <1>3, <1>4, <1>5, <1>6, <1>7, <1>8, <1>9, <1>10, AttrSetSizes

LEMMA SearchRightKeeps ==
  ASSUME SetsInv, SearchRight
  PROVE  SetsInv'
  <1>1. TypeOK /\ FrozenIsSorted /\ op.kind = "search"
    BY DEF SetsInv, SearchRight
  <1>2. /\ op.i < op.j /\ Key(S, Mid) < Sought /\ sets' = sets /\ given' = given /\ tracked' = tracked
        /\ writes' = writes /\ op' = [op EXCEPT !.i = Mid + 1]
    BY DEF SearchRight
  <1>3. PICK s, k, mid, j : s = S /\ k = Sought /\ mid = Mid /\ j = op.j
    OBVIOUS
  <1>4. /\ s.count \in Nat /\ Strictly(s, 0, s.count) /\ k \in Keys /\ k \in Nat /\ op.keys = {k}
        /\ mid \in Nat /\ mid < j /\ mid \in 0 .. s.count - 1 /\ j \in Nat /\ j <= s.count
        /\ \A x \in 0 .. s.count - 1 : Key(s, x) \in Nat
        /\ \A x \in j .. s.count - 1 : k < Key(s, x)
        /\ op.set \in given /\ s.frozen /\ op \in Calls /\ given \subseteq 1 .. tracked /\ writes \in 0 .. MaxWrites
    BY <1>1, <1>2, <1>3, SearchFacts
  <1>5. PICK n \in Nat : n = mid + 1
    BY <1>4
  <1>6. /\ op' \in Calls /\ op'.kind = "search" /\ op'.set = op.set /\ op'.i = n /\ op'.j = j /\ op'.keys = {k}
    <2>1. op' = [op EXCEPT !.i = n]
      BY <1>2, <1>3, <1>5
    <2> QED
      BY <1>1, <1>3, <1>4, <2>1 DEF Calls
  <1>7. TypeOK' /\ FrozenIsSorted'
    BY <1>1, <1>2, <1>4, <1>6, TypedAgain
  <1>8. ASSUME NEW x \in 0 .. n - 1 PROVE Key(s, x) < k
    <2>1. x \in 0 .. s.count - 1 /\ (x = mid \/ x < mid)
      BY <1>4, <1>5
    <2>2. Key(s, mid) < k
      BY <1>2, <1>3
    <2>3. CASE x < mid
      <3>1. Key(s, x) < Key(s, mid)
        BY <1>4, <2>1, <2>3 DEF Strictly
      <3> QED
        BY <1>4, <2>1, <2>2, <3>1
    <2> QED
      BY <2>1, <2>2, <2>3
  <1>9. SearchInv'
    <2>1. S' = s /\ sets[op.set] = s
      BY <1>2, <1>3, <1>6 DEF S
    <2>2. Sought' = k
      BY <1>6 DEF Sought
    <2>3. n <= j
      BY <1>4, <1>5
    <2> QED
      BY <1>2, <1>4, <1>6, <1>8, <2>1, <2>2, <2>3 DEF SearchInv, Frozen
  <1> QED
    BY <1>6, <1>7, <1>9, LoopsApart

LEMMA SearchLeftKeeps ==
  ASSUME SetsInv, SearchLeft
  PROVE  SetsInv'
  <1>1. TypeOK /\ FrozenIsSorted /\ op.kind = "search"
    BY DEF SetsInv, SearchLeft
  <1>2. /\ op.i < op.j /\ Key(S, Mid) > Sought /\ sets' = sets /\ given' = given /\ tracked' = tracked
        /\ writes' = writes /\ op' = [op EXCEPT !.j = Mid]
    BY DEF SearchLeft
  <1>3. PICK s, k, mid, i : s = S /\ k = Sought /\ mid = Mid /\ i = op.i
    OBVIOUS
  <1>4. /\ s.count \in Nat /\ Strictly(s, 0, s.count) /\ k \in Keys /\ k \in Nat /\ op.keys = {k}
        /\ mid \in Nat /\ i <= mid /\ mid \in 0 .. s.count - 1 /\ i \in Nat
        /\ \A x \in 0 .. s.count - 1 : Key(s, x) \in Nat
        /\ \A x \in 0 .. i - 1 : Key(s, x) < k
        /\ op.set \in given /\ s.frozen /\ op \in Calls /\ given \subseteq 1 .. tracked /\ writes \in 0 .. MaxWrites
    BY <1>1, <1>2, <1>3, SearchFacts
  <1>6. /\ op' \in Calls /\ op'.kind = "search" /\ op'.set = op.set /\ op'.i = i /\ op'.j = mid /\ op'.keys = {k}
    <2>1. op' = [op EXCEPT !.j = mid]
      BY <1>2, <1>3
    <2> QED
      BY <1>1, <1>3, <1>4, <2>1 DEF Calls
  <1>7. TypeOK' /\ FrozenIsSorted'
    BY <1>1, <1>2, <1>4, <1>6, TypedAgain
  <1>8. ASSUME NEW x \in mid .. s.count - 1 PROVE k < Key(s, x)
    <2>1. x \in 0 .. s.count - 1 /\ (x = mid \/ mid < x)
      BY <1>4
    <2>2. k < Key(s, mid)
      BY <1>2, <1>3, <1>4
    <2>3. CASE mid < x
      <3>1. Key(s, mid) < Key(s, x)
        BY <1>4, <2>1, <2>3 DEF Strictly
      <3> QED
        BY <1>4, <2>1, <2>2, <3>1
    <2> QED
      BY <2>1, <2>2, <2>3
  <1>9. SearchInv'
    <2>1. S' = s /\ sets[op.set] = s
      BY <1>2, <1>3, <1>6 DEF S
    <2>2. Sought' = k
      BY <1>6 DEF Sought
    <2>3. mid <= s.count
      BY <1>4
    <2> QED
      BY <1>2, <1>4, <1>6, <1>8, <2>1, <2>2, <2>3 DEF SearchInv, Frozen
  <1> QED
    BY <1>6, <1>7, <1>9, LoopsApart

LEMMA SearchEndsKeeps ==
  ASSUME SetsInv, SearchEnds
  PROVE  SetsInv'
  <1>1. TypeOK /\ FrozenIsSorted /\ op.kind = "search"
    BY DEF SetsInv, SearchEnds
  <1>2. PICK e : e = IF op.i < op.j THEN At(S, Mid) ELSE Absent
    OBVIOUS
  <1>3. PICK c : c = Call("answer", op.set)
    OBVIOUS
  <1>4. /\ sets' = sets /\ given' = given /\ tracked' = tracked
        /\ writes' = writes /\ op' = [c EXCEPT !.entry = e]
    BY <1>2, <1>3 DEF SearchEnds
  <1>5. e \in Entry \cup {Absent}
    <2>1. CASE op.i < op.j
      <3>1. Mid \in 0 .. S.count - 1 /\ WellFormed(S)
        BY <1>1, <2>1, SearchFacts
      <3>2. At(S, Mid) \in Entry
        BY <3>1 DEF WellFormed
      <3> QED
        BY <1>2, <2>1, <3>2
    <2>2. CASE ~ (op.i < op.j)
      BY <1>2, <2>2
    <2> QED
      BY <2>1, <2>2
  <1>6. op.set \in 0 .. MaxSets /\ given \subseteq 1 .. tracked /\ writes \in 0 .. MaxWrites
    BY <1>1, SearchFacts
  <1>7. c \in Calls /\ c.kind = "answer"
    BY <1>3, <1>6, CallFacts
  <1>8. op' \in Calls /\ op'.kind = "answer"
    BY <1>4, <1>5, <1>7 DEF Calls
  <1>9. TypeOK' /\ FrozenIsSorted'
    BY <1>1, <1>4, <1>6, <1>8, TypedAgain
  <1> QED
    BY <1>8, <1>9, NoLoop

LEMMA ReturnKeeps ==
  ASSUME SetsInv, Return
  PROVE  SetsInv'
  <1>1. TypeOK /\ FrozenIsSorted /\ sets' = sets /\ given' = given /\ tracked' = tracked /\ writes' = writes
        /\ op' = Idle
    BY DEF SetsInv, Return
  <1>2. op' \in Calls /\ op'.kind = "none" /\ given' \subseteq 1 .. tracked /\ writes' \in 0 .. MaxWrites
    BY <1>1, IdleFacts DEF TypeOK
  <1>3. TypeOK' /\ FrozenIsSorted'
    BY <1>1, <1>2, TypedAgain
  <1> QED
    BY <1>2, <1>3, NoLoop

\* A union or a removal begins with an empty set that nobody holds.
LEMMA CopyBegins ==
  ASSUME SetsInv, NEW c \in 0 .. MaxEntries, Make(c), NEW a \in given, sets[a].frozen,
         op' \in Calls, op'.kind \in {"union", "remove"}, op'.set = tracked + 1, op'.a = a,
         op'.i = 0, op'.j = 0,
         op'.kind = "union" => op'.b \in given /\ sets[op'.b].frozen,
         given' = given, writes' = writes
  PROVE  SetsInv'
  <1>1. TypeOK /\ FrozenIsSorted
    BY DEF SetsInv
  <1>2. PICK t : t = tracked + 1
    OBVIOUS
  <1>3. PICK m : m = Made(c)
    OBVIOUS
  <1>4. /\ t \in Handles /\ tracked' = t /\ tracked' \in 0 .. MaxSets /\ t \notin given
        /\ sets' \in [Handles -> AttrSet] /\ \A g \in Handles : WellFormed(sets'[g])
        /\ \A g \in 1 .. tracked' : sets'[g].capacity > 0
        /\ sets'[t] = m /\ m.count = 0 /\ m.frozen = FALSE
        /\ \A g \in Handles : g # t => sets'[g] = sets[g]
        /\ FrozenIsSorted'
    BY <1>1, <1>2, <1>3, MakeFacts
  <1>5. given \subseteq Handles /\ given \subseteq 1 .. tracked /\ tracked \in Nat
        /\ \A g \in given : sets[g].count \in Nat
    BY <1>1, StateFacts
  <1>6. given' \subseteq 1 .. tracked'
    BY <1>2, <1>4, <1>5
  <1>7. TypeOK'
    BY <1>1, <1>4, <1>6 DEF TypeOK
  <1>8. \A g \in given : sets'[g] = sets[g]
    BY <1>4, <1>5
  <1>9. S' = m
    BY <1>2, <1>4 DEF S
  <1>10. 0 .. 0 - 1 = {} /\ \A n \in Nat : 0 <= n
    OBVIOUS
  <1>11. Strictly(m, 0, m.count)
    BY <1>4, <1>10 DEF Strictly
  <1>12. t <= tracked'
    BY <1>2, <1>4, <1>5
  <1>13. Frozen(op.a)' /\ 0 <= sets'[a].count
    BY <1>5, <1>8, <1>10 DEF Frozen
  <1>14. op'.kind = "union" => Frozen(op.b)' /\ 0 <= sets'[op'.b].count
    BY <1>5, <1>8, <1>10 DEF Frozen
  <1>15. CopyInv'
    BY <1>2, <1>4, <1>9, <1>10, <1>11, <1>12, <1>13, <1>14 DEF CopyInv
  <1> QED
    BY <1>4, <1>7, <1>15, LoopsApart

LEMMA UnionBegins ==
  ASSUME SetsInv, NEW a \in Handles, NEW b \in Handles, nn_attrset_union(a, b)
  PROVE  SetsInv'
  <1>1. TypeOK
    BY DEF SetsInv
  <1>2. PICK total : total = sets[a].count + sets[b].count
    OBVIOUS
  <1>3. PICK c : c = IF total > MaxEntries THEN MaxEntries ELSE total
    OBVIOUS
  <1>4. sets[a].count \in Nat /\ sets[b].count \in Nat /\ MaxEntries \in Nat /\ a \in 0 .. MaxSets /\ b \in 0 .. MaxSets
    BY <1>1, StateFacts, AttrSetSizes DEF Handles
  <1>5. c \in 0 .. MaxEntries
    BY <1>2, <1>3, <1>4
  <1>6. PICK k : k = Call("union", tracked + 1)
    OBVIOUS
  <1>7. /\ Make(c) /\ a \in given /\ sets[a].frozen /\ b \in given /\ sets[b].frozen
        /\ op' = [k EXCEPT !.a = a, !.b = b] /\ given' = given /\ writes' = writes
    BY <1>2, <1>3, <1>6 DEF nn_attrset_union, Frozen
  <1>8. tracked + 1 \in 0 .. MaxSets
    BY <1>7 DEF Make, Handles
  <1>9. /\ k \in Calls /\ k.kind = "union" /\ k.set = tracked + 1 /\ k.i = 0 /\ k.j = 0
    BY <1>6, <1>8, CallFacts
  <1>10. /\ op' \in Calls /\ op'.kind = "union" /\ op'.set = tracked + 1 /\ op'.i = 0 /\ op'.j = 0
         /\ op'.a = a /\ op'.b = b
    BY <1>4, <1>7, <1>9 DEF Calls
  <1> QED
    BY <1>5, <1>7, <1>10, CopyBegins

LEMMA RemoveBegins ==
  ASSUME SetsInv, NEW a \in Handles, NEW keys \in Removals, nn_attrset_remove_keys(a, keys)
  PROVE  SetsInv'
  <1>1. TypeOK /\ keys \subseteq Keys
    BY AttrSetSizes DEF SetsInv
  <1>2. PICK c : c = sets[a].count
    OBVIOUS
  <1>3. c \in 0 .. MaxEntries /\ a \in 0 .. MaxSets
    <2>1. WellFormed(sets[a])
      BY <1>1, StateFacts
    <2>2. sets[a].count \in 0 .. MaxEntries
      BY <2>1 DEF WellFormed, AttrSet
    <2> QED
      BY <1>2, <2>2 DEF Handles
  <1>4. PICK k : k = Call("remove", tracked + 1)
    OBVIOUS
  <1>5. /\ Make(c) /\ a \in given /\ sets[a].frozen
        /\ op' = [k EXCEPT !.a = a, !.keys = keys] /\ given' = given /\ writes' = writes
    BY <1>2, <1>4 DEF nn_attrset_remove_keys, Frozen
  <1>6. tracked + 1 \in 0 .. MaxSets
    BY <1>5 DEF Make, Handles
  <1>7. /\ k \in Calls /\ k.kind = "remove" /\ k.set = tracked + 1 /\ k.i = 0 /\ k.j = 0
    BY <1>4, <1>6, CallFacts
  <1>8. /\ op' \in Calls /\ op'.kind = "remove" /\ op'.set = tracked + 1 /\ op'.i = 0 /\ op'.j = 0
        /\ op'.a = a
    BY <1>1, <1>3, <1>5, <1>7 DEF Calls
  <1> QED
    BY <1>3, <1>5, <1>8, CopyBegins

\* What the merge knows, of the result and of the two sides.
LEMMA CopyFacts ==
  ASSUME SetsInv, op.kind \in {"union", "remove"}
  PROVE  /\ op.set \in Handles /\ op.set \notin given /\ op.set \in 1 .. tracked /\ ~ S.frozen
         /\ WellFormed(S) /\ S.capacity > 0 /\ S.count \in Nat
         /\ Strictly(S, 0, S.count) /\ \A x \in 0 .. S.count - 1 : Key(S, x) \in Nat
         /\ op.a \in given /\ op.a \in Handles /\ sets[op.a].frozen /\ sets[op.a].count \in Nat
         /\ op.i \in Nat /\ op.j \in Nat /\ op.i <= sets[op.a].count
         /\ Strictly(sets[op.a], 0, sets[op.a].count)
         /\ \A y \in 0 .. sets[op.a].count - 1 : Key(sets[op.a], y) \in Nat /\ At(sets[op.a], y) \in Entry
         /\ \A x \in 0 .. S.count - 1 :
              \A y \in op.i .. sets[op.a].count - 1 : Key(S, x) < Key(sets[op.a], y)
         /\ op.kind = "union" =>
              /\ op.b \in given /\ op.b \in Handles /\ sets[op.b].frozen /\ sets[op.b].count \in Nat
              /\ op.j <= sets[op.b].count
              /\ Strictly(sets[op.b], 0, sets[op.b].count)
              /\ \A y \in 0 .. sets[op.b].count - 1 : Key(sets[op.b], y) \in Nat /\ At(sets[op.b], y) \in Entry
              /\ \A x \in 0 .. S.count - 1 :
                   \A y \in op.j .. sets[op.b].count - 1 : Key(S, x) < Key(sets[op.b], y)
         /\ op \in Calls /\ given \subseteq 1 .. tracked /\ writes \in 0 .. MaxWrites
  <1>1. TypeOK /\ FrozenIsSorted /\ CopyInv
    BY DEF SetsInv
  <1>2. /\ op.set \in Handles /\ op.set \notin given /\ op.set <= tracked /\ ~ S.frozen
        /\ op.a \in given /\ sets[op.a].frozen /\ op.i <= sets[op.a].count
        /\ op.kind = "union" => op.b \in given /\ sets[op.b].frozen /\ op.j <= sets[op.b].count
        /\ Strictly(S, 0, S.count)
        /\ \A x \in 0 .. S.count - 1 :
              \A y \in op.i .. sets[op.a].count - 1 : Key(S, x) < Key(sets[op.a], y)
        /\ op.kind = "union" => \A x \in 0 .. S.count - 1 :
              \A y \in op.j .. sets[op.b].count - 1 : Key(S, x) < Key(sets[op.b], y)
    BY <1>1 DEF CopyInv, Frozen
  <1>3. /\ tracked \in Nat /\ given \subseteq Handles /\ op.i \in Nat /\ op.j \in Nat
        /\ \A h \in Handles : WellFormed(sets[h]) /\ sets[h].count \in Nat
        /\ op \in Calls /\ given \subseteq 1 .. tracked /\ writes \in 0 .. MaxWrites
    BY <1>1, StateFacts DEF TypeOK
  <1>4. op.set \in 1 .. tracked
    BY <1>2, <1>3 DEF Handles
  <1>5. WellFormed(S) /\ S.capacity > 0 /\ S.count \in Nat
    BY <1>1, <1>2, <1>3, <1>4 DEF S, TypeOK
  <1>6. \A h \in Handles : \A y \in 0 .. sets[h].count - 1 : Key(sets[h], y) \in Nat /\ At(sets[h], y) \in Entry
    BY <1>3, Keyed DEF WellFormed
  <1>7. \A h \in given : sets[h].frozen => Strictly(sets[h], 0, sets[h].count)
    BY <1>1, <1>3 DEF FrozenIsSorted
  <1>8. \A x \in 0 .. S.count - 1 : Key(S, x) \in Nat
    BY <1>2, <1>6 DEF S
  <1> QED
    BY <1>2, <1>3, <1>4, <1>5, <1>6, <1>7, <1>8

\* One insertion: of an entry after all of the result and before what is left.
LEMMA CopyKeeps ==
  ASSUME SetsInv, op.kind \in {"union", "remove"}, NEW e \in Entry, NEW i2 \in Nat, NEW j2 \in Nat, NEW next,
         next = [op EXCEPT !.i = i2, !.j = j2], Copy(e, next),
         op.i <= i2, i2 <= sets[op.a].count,
         op.kind = "union" => op.j <= j2 /\ j2 <= sets[op.b].count,
         \A x \in 0 .. S.count - 1 : Key(S, x) < e.key,
         \A y \in i2 .. sets[op.a].count - 1 : e.key < Key(sets[op.a], y),
         op.kind = "union" => \A y \in j2 .. sets[op.b].count - 1 : e.key < Key(sets[op.b], y)
  PROVE  SetsInv'
  <1>1. TypeOK /\ FrozenIsSorted
    BY DEF SetsInv
  <1>2. PICK h, s, a, b : h = op.set /\ s = S /\ a = op.a /\ b = op.b
    OBVIOUS
  <1>3. /\ h \in Handles /\ h \notin given /\ h \in 1 .. tracked /\ ~ s.frozen /\ s = sets[h]
        /\ WellFormed(s) /\ s.capacity > 0 /\ s.count \in Nat
        /\ Strictly(s, 0, s.count)
        /\ a \in given /\ sets[a].frozen /\ sets[a].count \in Nat /\ a \in Handles
        /\ \A x \in 0 .. s.count - 1 : \A y \in op.i .. sets[a].count - 1 : Key(s, x) < Key(sets[a], y)
        /\ op.kind = "union" => b \in given /\ sets[b].frozen /\ sets[b].count \in Nat /\ b \in Handles
        /\ op.kind = "union" =>
             \A x \in 0 .. s.count - 1 : \A y \in op.j .. sets[b].count - 1 : Key(s, x) < Key(sets[b], y)
        /\ op \in Calls /\ given \subseteq 1 .. tracked /\ writes \in 0 .. MaxWrites
        /\ op.i \in Nat /\ op.j \in Nat
    BY <1>1, <1>2, CopyFacts DEF S
  <1>4. PICK r \in nn_attrset_insert(s, e) :
          sets' = [sets EXCEPT ![h] = r.set] /\ op' = IF r.ok THEN next ELSE Idle
    BY <1>2 DEF Copy
  <1>5. given' = given /\ tracked' = tracked /\ writes' = writes
    BY DEF Copy
  <1>6. PICK x : x = r.set
    OBVIOUS
  <1>7. /\ WellFormed(x) /\ x.capacity > 0 /\ x.frozen = s.frozen
        /\ \A m \in 0 .. s.count - 1 : At(x, m) = At(s, m)
        /\ r.ok => x.count = s.count + 1 /\ At(x, s.count) = e
    BY <1>3, <1>4, <1>6, InsertFacts
  <1>8. sets' = [sets EXCEPT ![h] = x] /\ ~ x.frozen
    BY <1>3, <1>4, <1>6, <1>7
  <1>9. sets'[h] = x /\ \A g \in given : sets'[g] = sets[g]
    BY <1>1, <1>3, <1>8 DEF TypeOK
  <1>10. op' \in Calls
    BY <1>3, <1>4, IdleFacts DEF Calls
  <1>11. TypeOK' /\ FrozenIsSorted'
    BY <1>1, <1>3, <1>5, <1>7, <1>8, <1>10, TypedAgain
  <1>12. CASE ~ r.ok
    <2>1. op'.kind = "none"
      BY <1>4, <1>12, IdleFacts
    <2> QED
      BY <1>11, <2>1, NoLoop
  <1>13. CASE r.ok
    <2>1. op' = [op EXCEPT !.i = i2, !.j = j2]
      BY <1>4, <1>13
    <2>2. /\ op'.kind = op.kind /\ op'.set = h /\ op'.a = a /\ op'.b = b /\ op'.i = i2 /\ op'.j = j2
      BY <1>2, <1>3, <2>1 DEF Calls
    <2>3. PICK n \in Nat : n = s.count
      BY <1>3
    <2>4. Key(x, n) = e.key /\ \A m \in 0 .. n - 1 : Key(x, m) = Key(s, m)
      <3>1. Key(x, n) = At(x, n).key /\ At(x, n) = e
        BY <1>7, <1>13, <2>3 DEF At, Key
      <3>2. \A m \in 0 .. n - 1 : Key(x, m) = Key(s, m)
        BY <1>7, <2>3, SameKey
      <3> QED
        BY <3>1, <3>2
    <2>5. x.count = n + 1 /\ \A m \in 0 .. (n + 1) - 1 : m = n \/ m \in 0 .. n - 1
      BY <1>7, <1>13, <2>3
    <2>6. Strictly(x, 0, x.count)
      <3> SUFFICES ASSUME NEW m \in 0 .. (n + 1) - 1, NEW l \in 0 .. (n + 1) - 1, m < l
                   PROVE  Key(x, m) < Key(x, l)
        BY <2>5 DEF Strictly
      <3>1. m \in 0 .. n - 1 /\ (l = n \/ l \in 0 .. n - 1)
        OBVIOUS
      <3> QED
        BY <1>2, <1>3, <2>3, <2>4, <3>1 DEF Strictly
    <2>7. \A m \in 0 .. x.count - 1 : \A y \in i2 .. sets[a].count - 1 : Key(x, m) < Key(sets[a], y)
      <3>1. \A y \in i2 .. sets[a].count - 1 : y \in op.i .. sets[a].count - 1
        BY <1>3
      <3> QED
        BY <1>2, <1>3, <2>3, <2>4, <2>5, <3>1
    <2>8. ASSUME op.kind = "union"
          PROVE  \A m \in 0 .. x.count - 1 : \A y \in j2 .. sets[b].count - 1 : Key(x, m) < Key(sets[b], y)
      <3>1. \A y \in j2 .. sets[b].count - 1 : y \in op.j .. sets[b].count - 1
        BY <1>2, <1>3, <2>8
      <3> QED
        BY <1>2, <1>3, <2>3, <2>4, <2>5, <2>8, <3>1
    <2>9. S' = x /\ sets'[a] = sets[a] /\ (op.kind = "union" => sets'[b] = sets[b])
      BY <1>3, <1>9, <2>2 DEF S
    <2>10. h <= tracked'
      BY <1>1, <1>3, <1>5, StateFacts
    <2>11. Frozen(op.a)' /\ (op.kind = "union" => Frozen(op.b)')
      BY <1>3, <1>5, <2>2, <2>9 DEF Frozen
    <2>12. CopyInv'
      BY <1>2, <1>3, <1>5, <1>8, <2>2, <2>6, <2>7, <2>8, <2>9, <2>10, <2>11 DEF CopyInv
    <2> QED
      BY <1>11, <2>2, <2>12, LoopsApart
  <1> QED
    BY <1>12, <1>13

LEMMA MergeLeftKeeps ==
  ASSUME SetsInv, MergeLeft
  PROVE  SetsInv'
  <1>1. /\ op.kind = "union" /\ LeftOver /\ (RightOver => KeyA < KeyB)
        /\ Copy(At(sets[op.a], op.i), [op EXCEPT !.i = op.i + 1])
    BY DEF MergeLeft
  <1>2. PICK a, b, i, j : a = sets[op.a] /\ b = sets[op.b] /\ i = op.i /\ j = op.j
    OBVIOUS
  <1>3. /\ i \in Nat /\ j \in Nat /\ a.count \in Nat /\ b.count \in Nat /\ i < a.count /\ j <= b.count
        /\ Strictly(a, 0, a.count) /\ Strictly(b, 0, b.count) /\ op \in Calls
        /\ \A y \in 0 .. a.count - 1 : Key(a, y) \in Nat /\ At(a, y) \in Entry
        /\ \A y \in 0 .. b.count - 1 : Key(b, y) \in Nat
        /\ \A x \in 0 .. S.count - 1 : \A y \in i .. a.count - 1 : Key(S, x) < Key(a, y)
    BY <1>1, <1>2, CopyFacts DEF LeftOver
  <1>4. i \in 0 .. a.count - 1 /\ i \in i .. a.count - 1
    BY <1>3
  <1>5. PICK e \in Entry : e = At(a, i)
    BY <1>3, <1>4
  <1>6. e.key = Key(a, i)
    BY <1>5 DEF At, Key
  <1>7. PICK n \in Nat : n = i + 1
    BY <1>3
  <1>8. PICK next : next = [op EXCEPT !.i = n, !.j = j]
    OBVIOUS
  <1>9. Copy(e, next)
    <2>1. next = [op EXCEPT !.i = n]
      BY <1>2, <1>3, <1>8 DEF Calls
    <2> QED
      BY <1>1, <1>2, <1>5, <1>7, <2>1
  <1>10. \A x \in 0 .. S.count - 1 : Key(S, x) < e.key
    BY <1>3, <1>4, <1>6
  <1>11. \A y \in n .. a.count - 1 : e.key < Key(a, y)
    <2>1. \A y \in n .. a.count - 1 : y \in 0 .. a.count - 1 /\ i < y
      BY <1>3, <1>7
    <2> QED
      BY <1>3, <1>4, <1>6, <2>1 DEF Strictly
  <1>12. \A y \in j .. b.count - 1 : e.key < Key(b, y)
    <2> SUFFICES ASSUME NEW y \in j .. b.count - 1
                 PROVE  e.key < Key(b, y)
      OBVIOUS
    <2>1. j < b.count /\ j \in 0 .. b.count - 1 /\ y \in 0 .. b.count - 1 /\ (y = j \/ j < y)
      BY <1>3
    <2>2. e.key < Key(b, j)
      BY <1>1, <1>2, <1>6, <2>1 DEF RightOver, KeyA, KeyB
    <2>3. CASE j < y
      <3>1. Key(b, j) < Key(b, y)
        BY <1>3, <2>1, <2>3 DEF Strictly
      <3> QED
        BY <1>3, <1>4, <1>6, <2>1, <2>2, <3>1
    <2> QED
      BY <2>1, <2>2, <2>3
  <1>13. i <= n /\ n <= a.count /\ j <= j
    BY <1>3, <1>7
  <1> QED
    BY <1>1, <1>2, <1>3, <1>8, <1>9, <1>10, <1>11, <1>12, <1>13, CopyKeeps

LEMMA MergeRightKeeps ==
  ASSUME SetsInv, MergeRight
  PROVE  SetsInv'
  <1>1. /\ op.kind = "union" /\ RightOver /\ (LeftOver => KeyA > KeyB)
        /\ Copy(At(sets[op.b], op.j), [op EXCEPT !.j = op.j + 1])
    BY DEF MergeRight
  <1>2. PICK a, b, i, j : a = sets[op.a] /\ b = sets[op.b] /\ i = op.i /\ j = op.j
    OBVIOUS
  <1>3. /\ i \in Nat /\ j \in Nat /\ a.count \in Nat /\ b.count \in Nat /\ i <= a.count /\ j < b.count
        /\ Strictly(a, 0, a.count) /\ Strictly(b, 0, b.count) /\ op \in Calls
        /\ \A y \in 0 .. b.count - 1 : Key(b, y) \in Nat /\ At(b, y) \in Entry
        /\ \A y \in 0 .. a.count - 1 : Key(a, y) \in Nat
        /\ \A x \in 0 .. S.count - 1 : \A y \in j .. b.count - 1 : Key(S, x) < Key(b, y)
    BY <1>1, <1>2, CopyFacts DEF RightOver
  <1>4. j \in 0 .. b.count - 1 /\ j \in j .. b.count - 1
    BY <1>3
  <1>5. PICK e \in Entry : e = At(b, j)
    BY <1>3, <1>4
  <1>6. e.key = Key(b, j)
    BY <1>5 DEF At, Key
  <1>7. PICK n \in Nat : n = j + 1
    BY <1>3
  <1>8. PICK next : next = [op EXCEPT !.i = i, !.j = n]
    OBVIOUS
  <1>9. Copy(e, next)
    <2>1. next = [op EXCEPT !.j = n]
      BY <1>2, <1>3, <1>8 DEF Calls
    <2> QED
      BY <1>1, <1>2, <1>5, <1>7, <2>1
  <1>10. \A x \in 0 .. S.count - 1 : Key(S, x) < e.key
    BY <1>3, <1>4, <1>6
  <1>11. \A y \in n .. b.count - 1 : e.key < Key(b, y)
    <2>1. \A y \in n .. b.count - 1 : y \in 0 .. b.count - 1 /\ j < y
      BY <1>3, <1>7
    <2> QED
      BY <1>3, <1>4, <1>6, <2>1 DEF Strictly
  <1>12. \A y \in i .. a.count - 1 : e.key < Key(a, y)
    <2> SUFFICES ASSUME NEW y \in i .. a.count - 1
                 PROVE  e.key < Key(a, y)
      OBVIOUS
    <2>1. i < a.count /\ i \in 0 .. a.count - 1 /\ y \in 0 .. a.count - 1 /\ (y = i \/ i < y)
      BY <1>3
    <2>2. e.key < Key(a, i)
      BY <1>1, <1>2, <1>3, <1>4, <1>6, <2>1 DEF LeftOver, KeyA, KeyB
    <2>3. CASE i < y
      <3>1. Key(a, i) < Key(a, y)
        BY <1>3, <2>1, <2>3 DEF Strictly
      <3> QED
        BY <1>3, <1>4, <1>6, <2>1, <2>2, <3>1
    <2> QED
      BY <2>1, <2>2, <2>3
  <1>13. i <= i /\ j <= n /\ n <= b.count
    BY <1>3, <1>7
  <1> QED
    BY <1>1, <1>2, <1>3, <1>8, <1>9, <1>10, <1>11, <1>12, <1>13, CopyKeeps

LEMMA MergeBothKeeps ==
  ASSUME SetsInv, MergeBoth
  PROVE  SetsInv'
  <1>1. /\ op.kind = "union" /\ LeftOver /\ RightOver /\ KeyA = KeyB
        /\ Copy(At(sets[op.b], op.j), [op EXCEPT !.i = op.i + 1, !.j = op.j + 1])
    BY DEF MergeBoth
  <1>2. PICK a, b, i, j : a = sets[op.a] /\ b = sets[op.b] /\ i = op.i /\ j = op.j
    OBVIOUS
  <1>3. /\ i \in Nat /\ j \in Nat /\ a.count \in Nat /\ b.count \in Nat /\ i < a.count /\ j < b.count
        /\ Strictly(a, 0, a.count) /\ Strictly(b, 0, b.count) /\ op \in Calls
        /\ \A y \in 0 .. b.count - 1 : Key(b, y) \in Nat /\ At(b, y) \in Entry
        /\ \A x \in 0 .. S.count - 1 : \A y \in j .. b.count - 1 : Key(S, x) < Key(b, y)
        /\ Key(a, i) = Key(b, j)
    BY <1>1, <1>2, CopyFacts DEF LeftOver, RightOver, KeyA, KeyB
  <1>4. j \in 0 .. b.count - 1 /\ j \in j .. b.count - 1 /\ i \in 0 .. a.count - 1
    BY <1>3
  <1>5. PICK e \in Entry : e = At(b, j)
    BY <1>3, <1>4
  <1>6. e.key = Key(b, j)
    BY <1>5 DEF At, Key
  <1>7. PICK m \in Nat, n \in Nat : m = i + 1 /\ n = j + 1
    BY <1>3
  <1>8. PICK next : next = [op EXCEPT !.i = m, !.j = n]
    OBVIOUS
  <1>9. Copy(e, next)
    BY <1>1, <1>2, <1>5, <1>7, <1>8
  <1>10. \A x \in 0 .. S.count - 1 : Key(S, x) < e.key
    BY <1>3, <1>4, <1>6
  <1>11. \A y \in n .. b.count - 1 : e.key < Key(b, y)
    <2>1. \A y \in n .. b.count - 1 : y \in 0 .. b.count - 1 /\ j < y
      BY <1>3, <1>7
    <2> QED
      BY <1>3, <1>4, <1>6, <2>1 DEF Strictly
  <1>12. \A y \in m .. a.count - 1 : e.key < Key(a, y)
    <2>1. \A y \in m .. a.count - 1 : y \in 0 .. a.count - 1 /\ i < y
      BY <1>3, <1>7
    <2> QED
      BY <1>3, <1>4, <1>6, <2>1 DEF Strictly
  <1>13. i <= m /\ m <= a.count /\ j <= n /\ n <= b.count
    BY <1>3, <1>7
  <1> QED
    BY <1>1, <1>2, <1>8, <1>9, <1>10, <1>11, <1>12, <1>13, CopyKeeps

LEMMA RemoveKeepKeeps ==
  ASSUME SetsInv, RemoveKeep
  PROVE  SetsInv'
  <1>1. /\ op.kind = "remove" /\ LeftOver
        /\ Copy(At(sets[op.a], op.i), [op EXCEPT !.i = op.i + 1])
    BY DEF RemoveKeep
  <1>2. PICK a, i, j : a = sets[op.a] /\ i = op.i /\ j = op.j
    OBVIOUS
  <1>3. /\ i \in Nat /\ j \in Nat /\ a.count \in Nat /\ i < a.count
        /\ Strictly(a, 0, a.count) /\ op \in Calls
        /\ \A y \in 0 .. a.count - 1 : Key(a, y) \in Nat /\ At(a, y) \in Entry
        /\ \A x \in 0 .. S.count - 1 : \A y \in i .. a.count - 1 : Key(S, x) < Key(a, y)
    BY <1>1, <1>2, CopyFacts DEF LeftOver
  <1>4. i \in 0 .. a.count - 1 /\ i \in i .. a.count - 1
    BY <1>3
  <1>5. PICK e \in Entry : e = At(a, i)
    BY <1>3, <1>4
  <1>6. e.key = Key(a, i)
    BY <1>5 DEF At, Key
  <1>7. PICK n \in Nat : n = i + 1
    BY <1>3
  <1>8. PICK next : next = [op EXCEPT !.i = n, !.j = j]
    OBVIOUS
  <1>9. Copy(e, next)
    <2>1. next = [op EXCEPT !.i = n]
      BY <1>2, <1>3, <1>8 DEF Calls
    <2> QED
      BY <1>1, <1>2, <1>5, <1>7, <2>1
  <1>10. \A x \in 0 .. S.count - 1 : Key(S, x) < e.key
    BY <1>3, <1>4, <1>6
  <1>11. \A y \in n .. a.count - 1 : e.key < Key(a, y)
    <2>1. \A y \in n .. a.count - 1 : y \in 0 .. a.count - 1 /\ i < y
      BY <1>3, <1>7
    <2> QED
      BY <1>3, <1>4, <1>6, <2>1 DEF Strictly
  <1>12. i <= n /\ n <= a.count
    BY <1>3, <1>7
  <1> QED
    BY <1>1, <1>2, <1>3, <1>8, <1>9, <1>10, <1>11, <1>12, CopyKeeps

LEMMA RemoveSkipKeeps ==
  ASSUME SetsInv, RemoveSkip
  PROVE  SetsInv'
  <1>1. /\ op.kind = "remove" /\ LeftOver /\ sets' = sets /\ given' = given /\ tracked' = tracked
        /\ writes' = writes /\ op' = [op EXCEPT !.i = op.i + 1]
    BY DEF RemoveSkip
  <1>2. PICK s, a, i : s = S /\ a = op.a /\ i = op.i
    OBVIOUS
  <1>3. /\ i \in Nat /\ sets[a].count \in Nat /\ i < sets[a].count /\ op \in Calls
        /\ op.set \in Handles /\ op.set \notin given /\ op.set \in 1 .. tracked /\ ~ s.frozen
        /\ Strictly(s, 0, s.count)
        /\ a \in given /\ sets[a].frozen
        /\ \A x \in 0 .. s.count - 1 : \A y \in i .. sets[a].count - 1 : Key(s, x) < Key(sets[a], y)
        /\ given \subseteq 1 .. tracked /\ writes \in 0 .. MaxWrites
    BY <1>1, <1>2, CopyFacts DEF LeftOver
  <1>4. PICK n \in Nat : n = i + 1
    BY <1>3
  <1>5. op' \in Calls /\ op'.kind = "remove" /\ op'.set = op.set /\ op'.a = a /\ op'.i = n
    <2>1. op' = [op EXCEPT !.i = n]
      BY <1>1, <1>2, <1>4
    <2> QED
      BY <1>1, <1>2, <1>3, <2>1 DEF Calls
  <1>6. TypeOK /\ FrozenIsSorted
    BY DEF SetsInv
  <1>7. TypeOK' /\ FrozenIsSorted'
    BY <1>1, <1>3, <1>5, <1>6, TypedAgain
  <1>8. CopyInv'
    <2>1. S' = s
      BY <1>1, <1>2, <1>5 DEF S
    <2>2. n <= sets[a].count /\ \A y \in n .. sets[a].count - 1 : y \in i .. sets[a].count - 1
      BY <1>3, <1>4
    <2>3. op.set <= tracked
      BY <1>3, <1>6, StateFacts
    <2> QED
      BY <1>1, <1>3, <1>5, <2>1, <2>2, <2>3 DEF CopyInv, Frozen
  <1> QED
    BY <1>5, <1>7, <1>8, LoopsApart

LEMMA CopyDoneKeeps ==
  ASSUME SetsInv, CopyDone
  PROVE  SetsInv'
  <1>1. /\ op.kind \in {"union", "remove"} /\ given' = given \cup {op.set} /\ tracked' = tracked
        /\ writes' = writes /\ op' = Idle /\ sets' = [sets EXCEPT ![op.set].frozen = TRUE]
    BY DEF CopyDone
  <1>2. PICK h, s : h = op.set /\ s = S
    OBVIOUS
  <1>3. /\ h \in Handles /\ h \in 1 .. tracked /\ s = sets[h]
        /\ WellFormed(s) /\ s.capacity > 0 /\ Strictly(s, 0, s.count)
        /\ given \subseteq 1 .. tracked /\ writes \in 0 .. MaxWrites
    BY <1>1, <1>2, CopyFacts DEF S
  <1>4. PICK x : x = [s EXCEPT !.frozen = TRUE]
    OBVIOUS
  <1>5. s \in AttrSet
    BY <1>3 DEF WellFormed
  <1>6. /\ x \in AttrSet /\ x.names = s.names /\ x.values = s.values /\ x.count = s.count
        /\ x.capacity = s.capacity
    BY <1>4, <1>5 DEF AttrSet
  <1>7. \A m : At(x, m) = At(s, m) /\ Key(x, m) = Key(s, m)
    BY <1>6 DEF At, Key
  <1>8. WellFormed(x)
    BY <1>3, <1>6, <1>7 DEF WellFormed
  <1>9. Strictly(x, 0, x.count) /\ x.capacity > 0
    BY <1>3, <1>6, <1>7 DEF Strictly
  <1>10. sets' = [sets EXCEPT ![h] = x]
    BY <1>1, <1>2, <1>3, <1>4
  <1>11. op' \in Calls /\ op'.kind = "none" /\ given' \subseteq 1 .. tracked
    BY <1>1, <1>2, <1>3, IdleFacts
  <1>12. TypeOK /\ FrozenIsSorted
    BY DEF SetsInv
  <1>13. TypeOK' /\ FrozenIsSorted'
    BY <1>1, <1>3, <1>8, <1>9, <1>10, <1>11, <1>12, TypedAgain
  <1> QED
    BY <1>11, <1>13, NoLoop

LEMMA FreeAllKeeps ==
  ASSUME SetsInv, nn_attrset_free_all
  PROVE  SetsInv'
  <1>1. /\ sets' = [h \in Handles |-> Blank] /\ tracked' = 0 /\ given' = {} /\ op' = Call("over", 0)
        /\ writes' = writes
    BY DEF nn_attrset_free_all
  <1>2. WellFormed(Blank) /\ Blank.frozen = FALSE
    BY BlankFacts
  <1>3. Blank \in AttrSet
    BY <1>2 DEF WellFormed
  <1>4. 0 \in 0 .. MaxSets /\ 1 .. 0 = {}
    BY AttrSetSizes
  <1>5. op' \in Calls /\ op'.kind = "over"
    BY <1>1, <1>4, CallFacts
  <1>6. sets' \in [Handles -> AttrSet] /\ \A h \in Handles : sets'[h] = Blank
    BY <1>1, <1>3
  <1>7. writes' \in 0 .. MaxWrites
    BY <1>1 DEF SetsInv, TypeOK
  <1>8. TypeOK'
    BY <1>1, <1>2, <1>4, <1>5, <1>6, <1>7 DEF TypeOK
  <1>9. FrozenIsSorted'
    BY <1>2, <1>6 DEF FrozenIsSorted
  <1> QED
    BY <1>5, <1>8, <1>9, NoLoop

LEMMA SetsInvInit == Init => SetsInv
  <1> SUFFICES ASSUME Init PROVE SetsInv
    OBVIOUS
  <1>1. /\ sets = [h \in Handles |-> Blank] /\ tracked = 0 /\ given = {} /\ op = Idle /\ writes = 0
    BY DEF Init
  <1>2. WellFormed(Blank) /\ Blank.frozen = FALSE
    BY BlankFacts
  <1>3. Blank \in AttrSet
    BY <1>2 DEF WellFormed
  <1>4. 0 \in 0 .. MaxSets /\ 0 \in 0 .. MaxWrites /\ 1 .. 0 = {}
    BY AttrSetSizes
  <1>5. op \in Calls /\ op.kind = "none"
    BY <1>1, IdleFacts
  <1>6. sets \in [Handles -> AttrSet] /\ \A h \in Handles : sets[h] = Blank
    BY <1>1, <1>3
  <1>7. TypeOK
    BY <1>1, <1>2, <1>4, <1>5, <1>6 DEF TypeOK
  <1>8. FrozenIsSorted
    BY <1>2, <1>6 DEF FrozenIsSorted
  <1> QED
    BY <1>5, <1>7, <1>8 DEF SetsInv, SortInv, SiftInv, DedupInv, SearchInv, CopyInv

LEMMA SetsInvStep == SetsInv /\ [Next]_vars => SetsInv'
  <1> SUFFICES ASSUME SetsInv, [Next]_vars PROVE SetsInv'
    OBVIOUS
  <1>1. CASE UNCHANGED vars
    BY <1>1 DEF vars, SetsInv, TypeOK, FrozenIsSorted, SortInv, SiftInv, DedupInv, SearchInv, CopyInv, S,
                Sought, Frozen
  <1>2. CASE Next
    <2>1. ASSUME NEW c \in Capacities, nn_attrset_new(c) PROVE SetsInv'
      BY <2>1, NewKeeps
    <2>2. ASSUME NEW h \in Handles, Insert(h) \/ nn_attrset_set_value(h) \/ Freeze(h) PROVE SetsInv'
      BY <2>2, InsertKeeps, SetValueKeeps, FreezeKeeps
    <2>3. ASSUME NEW h \in Handles, NEW k \in Lookups, Search(h, k) PROVE SetsInv'
      BY <2>3, SearchBegins
    <2>4. ASSUME NEW a \in Handles, NEW b \in Handles, nn_attrset_union(a, b) PROVE SetsInv'
      BY <2>4, UnionBegins
    <2>5. ASSUME NEW a \in Handles, NEW keys \in Removals, nn_attrset_remove_keys(a, keys) PROVE SetsInv'
      BY <2>5, RemoveBegins
    <2>6. CASE nn_attrset_free_all
      BY <2>6, FreeAllKeeps
    <2>7. CASE Step
      <3>1. CASE qsort \/ SortPick \/ SortShift \/ SortPlace \/ SortDone
        BY <3>1, qsortKeeps, SortPickKeeps, SortShiftKeeps, SortPlaceKeeps, SortDoneKeeps
      <3>2. CASE DedupSkip \/ DedupKeep \/ DedupDone
        BY <3>2, DedupSkipKeeps, DedupKeepKeeps, DedupDoneKeeps
      <3>3. CASE SearchRight \/ SearchLeft \/ SearchEnds \/ Return
        BY <3>3, SearchRightKeeps, SearchLeftKeeps, SearchEndsKeeps, ReturnKeeps
      <3>4. CASE MergeLeft \/ MergeRight \/ MergeBoth
        BY <3>4, MergeLeftKeeps, MergeRightKeeps, MergeBothKeeps
      <3>5. CASE RemoveKeep \/ RemoveSkip \/ CopyDone
        BY <3>5, RemoveKeepKeeps, RemoveSkipKeeps, CopyDoneKeeps
      <3> QED
        BY <2>7, <3>1, <3>2, <3>3, <3>4, <3>5 DEF Step
    <2> QED
      BY <1>2, <2>1, <2>2, <2>3, <2>4, <2>5, <2>6, <2>7 DEF Next
  <1> QED
    BY <1>1, <1>2

(* Every path of the sort, the deduplication, the searches and the merges,  *)
(* whatever allocation is refused: a frozen set holds every key once and in *)
(* order, and no loop reads beyond the entries of its sets.                 *)
THEOREM SortedOnceFrozen == Spec => []SetsInv
  BY SetsInvInit, SetsInvStep, PTL DEF Spec

-----------------------------------------------------------------------------
(* The map a set stands for: of each key the last of its entries, wherever  *)
(* the sort and the deduplication have moved them.                          *)

\* Of the entries f at the places D, the last of each key.
LastOf(D, f) == {f[m] : m \in {l \in D : \A n \in D : n > l => f[n].key # f[l].key}}

LEMMA LastIs ==
  ASSUME NEW D, NEW f, NEW e
  PROVE  e \in LastOf(D, f) <=> \E m \in D : e = f[m] /\ \A n \in D : n > m => f[n].key # f[m].key
  BY DEF LastOf

\* The entries g at D are all those of f at C, and those of one key in their order.
Moved(D, g, C, f, from) ==
  /\ from \in [D -> C] /\ C \subseteq Nat /\ D \subseteq Nat
  /\ \A c \in C : \E d \in D : from[d] = c
  /\ \A d \in D : g[d] = f[from[d]]
  /\ \A d, e \in D : d < e /\ g[d].key = g[e].key => from[d] < from[e]

\* Entries may change their places as long as those of one key keep their order.
LEMMA MovedLast ==
  ASSUME NEW C, NEW D, NEW f, NEW g, NEW from, Moved(D, g, C, f, from)
  PROVE  LastOf(D, g) = LastOf(C, f)
  <1> USE DEF Moved
  <1>1. ASSUME NEW x \in LastOf(D, g) PROVE x \in LastOf(C, f)
    <2>1. PICK m \in D : x = g[m] /\ \A n \in D : n > m => g[n].key # g[m].key
      BY <1>1 DEF LastOf
    <2>2. from[m] \in C /\ x = f[from[m]]
      BY <2>1
    <2>3. ASSUME NEW c \in C, c > from[m], f[c].key = f[from[m]].key PROVE FALSE
      <3>1. PICK n \in D : from[n] = c
        OBVIOUS
      <3>2. g[n].key = g[m].key
        BY <2>3, <3>1
      <3>3. n \in Nat /\ m \in Nat /\ from[n] \in Nat /\ from[m] \in Nat
        OBVIOUS
      <3>4. ~ (n > m)
        BY <2>1, <3>2
      <3>5. n # m
        BY <2>3, <3>1, <3>3
      <3>6. n < m
        BY <3>3, <3>4, <3>5
      <3>7. from[n] < from[m]
        BY <3>2, <3>6
      <3> QED
        BY <2>3, <3>1, <3>3, <3>7
    <2> QED
      BY <2>2, <2>3, LastIs
  <1>2. ASSUME NEW x \in LastOf(C, f) PROVE x \in LastOf(D, g)
    <2>1. PICK c \in C : x = f[c] /\ \A n \in C : n > c => f[n].key # f[c].key
      BY <1>2 DEF LastOf
    <2>2. PICK m \in D : from[m] = c
      OBVIOUS
    <2>3. x = g[m]
      BY <2>1, <2>2
    <2>4. ASSUME NEW n \in D, n > m, g[n].key = g[m].key PROVE FALSE
      <3>1. n \in Nat /\ m \in Nat /\ from[n] \in C /\ from[n] \in Nat /\ from[m] \in Nat
        OBVIOUS
      <3>2. m < n
        BY <2>4, <3>1
      <3>3. from[m] < from[n]
        BY <2>4, <3>2
      <3>4. from[n] > c /\ f[from[n]].key = f[c].key
        BY <2>2, <2>4, <3>1, <3>3
      <3> QED
        BY <2>1, <3>1, <3>4
    <2> QED
      BY <2>3, <2>4, LastIs
  <1> QED
    BY <1>1, <1>2

\* Only what is at the places counts.
LEMMA SameLast ==
  ASSUME NEW D, D \subseteq Nat, NEW f, NEW g, \A d \in D : g[d] = f[d]
  PROVE  LastOf(D, g) = LastOf(D, f)
  <1>1. PICK from \in [D -> D] : \A d \in D : from[d] = d
    <2>1. [d \in D |-> d] \in [D -> D] /\ \A d \in D : [c \in D |-> c][d] = d
      OBVIOUS
    <2> QED
      BY <2>1
  <1>2. Moved(D, g, D, f, from)
    BY <1>1 DEF Moved
  <1> QED
    BY <1>2, MovedLast

\* An entry that a later one hides may go.
LEMMA DroppedLast ==
  ASSUME NEW D, D \subseteq Nat, NEW f, NEW i \in D, NEW n \in D, n > i, f[n].key = f[i].key
  PROVE  LastOf(D \ {i}, f) = LastOf(D, f)
  <1>1. ASSUME NEW x \in LastOf(D \ {i}, f) PROVE x \in LastOf(D, f)
    <2>1. PICK m \in D \ {i} : x = f[m] /\ \A l \in D \ {i} : l > m => f[l].key # f[m].key
      BY <1>1 DEF LastOf
    <2>2. i \in Nat /\ n \in Nat /\ m \in Nat /\ n \in D \ {i}
      OBVIOUS
    <2>3. i > m => f[i].key # f[m].key
      BY <2>1, <2>2
    <2>4. \A l \in D : l > m => f[l].key # f[m].key
      BY <2>1, <2>3
    <2> QED
      BY <2>1, <2>4, LastIs
  <1>2. ASSUME NEW x \in LastOf(D, f) PROVE x \in LastOf(D \ {i}, f)
    <2>1. PICK m \in D : x = f[m] /\ \A l \in D : l > m => f[l].key # f[m].key
      BY <1>2 DEF LastOf
    <2>2. m # i
      BY <2>1
    <2> QED
      BY <2>1, <2>2, LastIs
  <1> QED
    BY <1>1, <1>2

\* Where the keys ascend, every entry is the last of its key.
LEMMA AllLast ==
  ASSUME NEW D, D \subseteq Nat, NEW f, \A m \in D : f[m].key \in Nat,
         \A m, n \in D : m < n => f[m].key < f[n].key
  PROVE  LastOf(D, f) = {f[m] : m \in D}
  <1>1. ASSUME NEW m \in D, NEW n \in D, n > m PROVE f[n].key # f[m].key
    <2>1. f[m].key < f[n].key
      BY <1>1
    <2> QED
      BY <2>1
  <1> QED
    BY <1>1 DEF LastOf

\* One entry more hides those of its key.
LEMMA OneMoreLast ==
  ASSUME NEW n \in Nat, NEW f, NEW g, NEW e, \A m \in 0 .. n - 1 : g[m] = f[m], g[n] = e
  PROVE  LastOf(0 .. n, g) = {x \in LastOf(0 .. n - 1, f) : x.key \notin {e.key}} \cup {e}
  <1>1. /\ n \in 0 .. n /\ \A m \in 0 .. n - 1 : m \in 0 .. n /\ n > m
        /\ \A m \in 0 .. n : m = n \/ m \in 0 .. n - 1
        /\ \A m \in 0 .. n : ~ (m > n)
    OBVIOUS
  <1>2. ASSUME NEW x \in LastOf(0 .. n, g)
        PROVE  x \in {y \in LastOf(0 .. n - 1, f) : y.key \notin {e.key}} \cup {e}
    <2>1. PICK m \in 0 .. n : x = g[m] /\ \A l \in 0 .. n : l > m => g[l].key # g[m].key
      BY <1>2 DEF LastOf
    <2>2. CASE m = n
      BY <2>1, <2>2
    <2>3. CASE m \in 0 .. n - 1
      <3>1. x = f[m] /\ x.key # e.key
        BY <1>1, <2>1, <2>3
      <3>2. \A l \in 0 .. n - 1 : l > m => f[l].key # f[m].key
        BY <1>1, <2>1, <2>3
      <3>3. x \in LastOf(0 .. n - 1, f)
        BY <2>3, <3>1, <3>2, LastIs
      <3> QED
        BY <3>1, <3>3
    <2> QED
      BY <1>1, <2>2, <2>3
  <1>3. ASSUME NEW x \in LastOf(0 .. n - 1, f), x.key # e.key PROVE x \in LastOf(0 .. n, g)
    <2>1. PICK m \in 0 .. n - 1 : x = f[m] /\ \A l \in 0 .. n - 1 : l > m => f[l].key # f[m].key
      BY <1>3, LastIs
    <2>2. m \in 0 .. n /\ x = g[m]
      BY <1>1, <2>1
    <2>3. ASSUME NEW l \in 0 .. n, l > m PROVE g[l].key # g[m].key
      <3>1. CASE l = n
        BY <1>3, <2>2, <3>1
      <3>2. CASE l \in 0 .. n - 1
        BY <2>1, <2>3, <3>2
      <3> QED
        BY <1>1, <3>1, <3>2
    <2> QED
      BY <2>2, <2>3, LastIs
  <1>4. e \in LastOf(0 .. n, g)
    BY <1>1, LastIs
  <1> QED
    BY <1>2, <1>3, <1>4

-----------------------------------------------------------------------------
(* The map of a set under a call.                                           *)

Elems(s) == [m \in Nat |-> At(s, m)]

\* Bindings, of a set s with handle h under the call o.
HeldIn(s, o, h) == IF o.set = h /\ o.kind = "dedup" THEN (0 .. o.j - 1) \cup (o.i .. s.count - 1)
                                                    ELSE 0 .. s.count - 1
ElemIn(s, o, h, i) == IF o.set = h /\ o.kind = "sift" /\ i = o.j THEN o.entry ELSE At(s, i)
BoundIn(s, o, h) ==
  {ElemIn(s, o, h, i) : i \in {m \in HeldIn(s, o, h) :
     \A n \in HeldIn(s, o, h) : n > m => ElemIn(s, o, h, n).key # ElemIn(s, o, h, m).key}}

LEMMA BoundIs ==
  ASSUME NEW s, NEW o, NEW h, NEW D, D = HeldIn(s, o, h), NEW f, \A m \in D : f[m] = ElemIn(s, o, h, m)
  PROVE  BoundIn(s, o, h) = LastOf(D, f)
  <1>1. ASSUME NEW e PROVE e \in BoundIn(s, o, h) <=> e \in LastOf(D, f)
    <2>1. e \in BoundIn(s, o, h) <=>
            \E m \in D : /\ e = ElemIn(s, o, h, m)
                         /\ \A n \in D : n > m => ElemIn(s, o, h, n).key # ElemIn(s, o, h, m).key
      BY DEF BoundIn
    <2> QED
      BY <2>1, LastIs
  <1> QED
    BY <1>1

LEMMA QuietBound ==
  ASSUME NEW s, s.count \in Nat, NEW o, NEW h, o.set = h => o.kind \notin {"sift", "dedup"}
  PROVE  BoundIn(s, o, h) = LastOf(0 .. s.count - 1, Elems(s))
  <1>1. PICK D : D = HeldIn(s, o, h)
    OBVIOUS
  <1>2. D = 0 .. s.count - 1
    BY <1>1 DEF HeldIn
  <1>3. \A m \in D : m \in Nat
    BY <1>2
  <1>4. \A m \in D : Elems(s)[m] = ElemIn(s, o, h, m)
    BY <1>3 DEF Elems, ElemIn
  <1>5. PICK f : f = Elems(s)
    OBVIOUS
  <1>6. \A m \in D : f[m] = ElemIn(s, o, h, m)
    BY <1>4, <1>5
  <1>7. BoundIn(s, o, h) = LastOf(D, f)
    BY <1>1, <1>6, BoundIs
  <1> QED
    BY <1>2, <1>5, <1>7

LEMMA SiftBound ==
  ASSUME NEW s, s.count \in Nat, NEW o, NEW h, o.set = h, o.kind = "sift"
  PROVE  BoundIn(s, o, h) = LastOf(0 .. s.count - 1, [Elems(s) EXCEPT ![o.j] = o.entry])
  <1>1. PICK D : D = HeldIn(s, o, h)
    OBVIOUS
  <1>2. D = 0 .. s.count - 1
    BY <1>1 DEF HeldIn
  <1>3. \A m \in D : m \in Nat
    BY <1>2
  <1>4. \A m \in D : [Elems(s) EXCEPT ![o.j] = o.entry][m] = ElemIn(s, o, h, m)
    BY <1>3 DEF Elems, ElemIn
  <1>5. PICK f : f = [Elems(s) EXCEPT ![o.j] = o.entry]
    OBVIOUS
  <1>6. \A m \in D : f[m] = ElemIn(s, o, h, m)
    BY <1>4, <1>5
  <1>7. BoundIn(s, o, h) = LastOf(D, f)
    BY <1>1, <1>6, BoundIs
  <1> QED
    BY <1>2, <1>5, <1>7

LEMMA DedupBound ==
  ASSUME NEW s, s.count \in Nat, NEW o, NEW h, o.set = h, o.kind = "dedup", o.i \in Nat, o.j \in Nat
  PROVE  BoundIn(s, o, h) = LastOf((0 .. o.j - 1) \cup (o.i .. s.count - 1), Elems(s))
  <1>1. PICK D : D = HeldIn(s, o, h)
    OBVIOUS
  <1>2. D = (0 .. o.j - 1) \cup (o.i .. s.count - 1)
    BY <1>1 DEF HeldIn
  <1>3. \A m \in D : m \in Nat
    BY <1>2
  <1>4. \A m \in D : Elems(s)[m] = ElemIn(s, o, h, m)
    BY <1>3 DEF Elems, ElemIn
  <1>5. PICK f : f = Elems(s)
    OBVIOUS
  <1>6. \A m \in D : f[m] = ElemIn(s, o, h, m)
    BY <1>4, <1>5
  <1>7. BoundIn(s, o, h) = LastOf(D, f)
    BY <1>1, <1>6, BoundIs
  <1> QED
    BY <1>2, <1>5, <1>7

LEMMA BoundNow ==
  ASSUME NEW h
  PROVE  /\ Bindings(h) = BoundIn(sets[h], op, h)
         /\ Bindings(h)' = BoundIn(sets'[h], op', h)
  <1>1. Bindings(h) = BoundIn(sets[h], op, h)
    BY DEF Bindings, BoundIn, Live, Elem, HeldIn, ElemIn
  <1>2. Bindings(h)' = BoundIn(sets'[h], op', h)
    BY DEF Bindings, BoundIn, Live, Elem, HeldIn, ElemIn
  <1> QED
    BY <1>1, <1>2

-----------------------------------------------------------------------------
(* What the maps of Promise see of a step.                                  *)

Maps == [h \in Handles |-> IF h \in given THEN Bindings(h) ELSE {}]
Answer == IF op.kind = "answer" THEN <<op.entry>> ELSE << >>

LEMMA MapsKept ==
  ASSUME given' = given, \A h \in given : Bindings(h)' = Bindings(h)
  PROVE  Maps' = Maps
  BY DEF Maps

LEMMA MapsChanged ==
  ASSUME NEW h \in Handles, given' = given \cup {h}, \A g \in given \ {h} : Bindings(g)' = Bindings(g)
  PROVE  Maps' = [Maps EXCEPT ![h] = Bindings(h)']
  BY DEF Maps

LEMMA MapsAre ==
  ASSUME NEW h \in Handles, h \in given
  PROVE  Maps[h] = Bindings(h)
  BY DEF Maps

LEMMA SameAnswer ==
  ASSUME op.kind # "answer", op'.kind # "answer"
  PROVE  Answer' = Answer /\ Answer = << >>
  BY DEF Answer

LEMMA QuietSame ==
  ASSUME NEW g, sets[g].count \in Nat, sets'[g] = sets[g],
         op.set = g => op.kind \notin {"sift", "dedup"}, op'.set = g => op'.kind \notin {"sift", "dedup"}
  PROVE  Bindings(g)' = Bindings(g)
  <1>1. PICK s, o, p : s = sets[g] /\ o = op /\ p = op'
    OBVIOUS
  <1>2. s.count \in Nat /\ (o.set = g => o.kind \notin {"sift", "dedup"}) /\ (p.set = g => p.kind \notin {"sift", "dedup"})
    BY <1>1
  <1>3. BoundIn(s, o, g) = BoundIn(s, p, g)
    BY <1>2, QuietBound
  <1> QED
    BY <1>1, <1>3, BoundNow

\* Steps that no map shows: of a call that moves the entries of one set,
LEMMA LoopStep ==
  ASSUME TypeOK, NEW h \in Handles, op.set = h, op'.set \in {h, 0}, op.kind # "answer", op'.kind # "answer",
         \A g \in Handles : g # h => sets'[g] = sets[g], given' = given, writes' = writes,
         Bindings(h)' = Bindings(h)
  PROVE  UNCHANGED <<given, Maps, writes, Answer>>
  <1>1. ASSUME NEW g \in given, g # h PROVE Bindings(g)' = Bindings(g)
    <2>1. g \in Handles /\ sets[g].count \in Nat /\ g # 0
      BY StateFacts DEF Handles
    <2> QED
      BY <1>1, <2>1, QuietSame
  <1>2. \A g \in given : Bindings(g)' = Bindings(g)
    BY <1>1
  <1> QED
    BY <1>2, MapsKept, SameAnswer

\* and of one that leaves those the caller holds.
LEMMA QuietStep ==
  ASSUME TypeOK, op.kind \notin {"sift", "dedup", "answer"}, op'.kind \notin {"sift", "dedup", "answer"},
         \A g \in given : sets'[g] = sets[g], given' = given, writes' = writes
  PROVE  UNCHANGED <<given, Maps, writes, Answer>>
  <1>1. ASSUME NEW g \in given PROVE Bindings(g)' = Bindings(g)
    <2>1. sets[g].count \in Nat /\ sets'[g] = sets[g]
      BY StateFacts
    <2> QED
      BY <2>1, QuietSame
  <1> QED
    BY <1>1, MapsKept, SameAnswer

\* The entries up to n.
Copied(s, n) == {At(s, m) : m \in 0 .. n - 1}

LEMMA SortedBound ==
  ASSUME NEW s, WellFormed(s), Strictly(s, 0, s.count), NEW o, NEW h, o.set = h => o.kind \notin {"sift", "dedup"}
  PROVE  BoundIn(s, o, h) = Copied(s, s.count)
  <1>1. s.count \in Nat
    BY SetFields DEF WellFormed
  <1>2. PICK D : D = 0 .. s.count - 1
    OBVIOUS
  <1>3. PICK f : f = Elems(s)
    OBVIOUS
  <1>4. D \subseteq Nat /\ \A m \in D : f[m] = At(s, m) /\ f[m].key = Key(s, m)
    BY <1>1, <1>2, <1>3 DEF Elems, At, Key
  <1>5. \A m \in D : f[m].key \in Nat
    BY <1>2, <1>4, Keyed
  <1>6. \A m, n \in D : m < n => f[m].key < f[n].key
    BY <1>2, <1>4 DEF Strictly
  <1>7. LastOf(D, f) = {f[m] : m \in D}
    BY <1>4, <1>5, <1>6, AllLast
  <1>8. {f[m] : m \in D} = Copied(s, s.count)
    BY <1>2, <1>4 DEF Copied
  <1>9. BoundIn(s, o, h) = LastOf(D, f)
    BY <1>1, <1>2, <1>3, QuietBound
  <1> QED
    BY <1>7, <1>8, <1>9

\* A sort and a deduplication are of sets that are not frozen.
LEMMA FrozenQuiet ==
  ASSUME SetsInv, NEW g \in given, sets[g].frozen
  PROVE  /\ op.set = g => op.kind \notin {"sift", "dedup"}
         /\ g \in Handles /\ WellFormed(sets[g]) /\ Strictly(sets[g], 0, sets[g].count)
         /\ Bindings(g) = Copied(sets[g], sets[g].count)
  <1>1. op.set = g => op.kind \notin {"sift", "dedup"}
    BY DEF SetsInv, SiftInv, DedupInv, S
  <1>2. g \in Handles /\ WellFormed(sets[g]) /\ Strictly(sets[g], 0, sets[g].count)
    BY StateFacts DEF SetsInv, FrozenIsSorted
  <1>3. PICK s, o : s = sets[g] /\ o = op
    OBVIOUS
  <1>4. BoundIn(s, o, g) = Copied(s, s.count)
    BY <1>1, <1>2, <1>3, SortedBound
  <1> QED
    BY <1>1, <1>2, <1>3, <1>4, BoundNow

-----------------------------------------------------------------------------
(* The actions, as steps of Promise.                                        *)

LEMMA NewPromised ==
  ASSUME SetsInv, NEW c \in Capacities, nn_attrset_new(c)
  PROVE  Promise!Next
  <1>1. TypeOK /\ FrozenIsSorted /\ c \in 0 .. MaxEntries /\ Make(c)
        /\ given' = given \cup {tracked + 1} /\ op' = op /\ writes' = writes /\ op.kind = "none"
    BY AttrSetSizes DEF SetsInv, nn_attrset_new, Free
  <1>2. PICK h : h = tracked + 1
    OBVIOUS
  <1>3. PICK m : m = Made(c)
    OBVIOUS
  <1>4. /\ h \in Handles /\ h \notin given /\ sets'[h] = m /\ m.count = 0
        /\ \A g \in Handles : g # h => sets'[g] = sets[g]
    BY <1>1, <1>2, <1>3, MakeFacts
  <1>5. given \subseteq Handles /\ \A g \in given : sets[g].count \in Nat
    BY <1>1, StateFacts
  <1>6. \A g \in given \ {h} : Bindings(g)' = Bindings(g)
    BY <1>1, <1>4, <1>5, QuietSame
  <1>7. Bindings(h)' = {}
    <2>1. PICK o : o = op'
      OBVIOUS
    <2>2. BoundIn(m, o, h) = LastOf(0 .. m.count - 1, Elems(m))
      BY <1>1, <1>4, <2>1, QuietBound
    <2>3. 0 .. m.count - 1 = {}
      BY <1>4
    <2>4. LastOf({}, Elems(m)) = {}
      BY DEF LastOf
    <2> QED
      BY <1>4, <2>1, <2>2, <2>3, <2>4, BoundNow
  <1>8. Maps' = [Maps EXCEPT ![h] = {}]
    BY <1>1, <1>2, <1>4, <1>6, <1>7, MapsChanged
  <1>9. Answer' = Answer
    BY <1>1, SameAnswer
  <1>10. Promise!New(h)
    BY <1>1, <1>2, <1>4, <1>8, <1>9 DEF Promise!New, Promise!Give, Maps, Answer
  <1> QED
    BY <1>4, <1>10 DEF Promise!Next

LEMMA InsertPromised ==
  ASSUME SetsInv, NEW h \in Handles, Insert(h)
  PROVE  Promise!Next \/ UNCHANGED <<given, Maps, writes, Answer>>
  <1>1. TypeOK
    BY DEF SetsInv
  <1>2. PICK k \in Keys :
          \E r \in nn_attrset_insert(sets[h], [key |-> k, pos |-> writes + 1, value |-> writes + 1]) :
            sets' = [sets EXCEPT ![h] = r.set] /\ writes' = IF r.ok THEN writes + 1 ELSE writes
    BY DEF Insert
  <1>3. PICK e : e = [key |-> k, pos |-> writes + 1, value |-> writes + 1]
    OBVIOUS
  <1>4. PICK r \in nn_attrset_insert(sets[h], e) :
            sets' = [sets EXCEPT ![h] = r.set] /\ writes' = IF r.ok THEN writes + 1 ELSE writes
    BY <1>2, <1>3
  <1>5. /\ writes \in Nat /\ MaxWrites \in Nat /\ writes < MaxWrites /\ h \in given
        /\ op' = op /\ given' = given /\ op.kind = "none"
        /\ given \subseteq Handles /\ \A g \in Handles : sets[g].count \in Nat
    BY <1>1, StateFacts DEF Insert, Building, Free
  <1>6. e \in Entry /\ e.key = k
    BY <1>3, <1>5 DEF Words, Entry
  <1>7. PICK s, x, o : s = sets[h] /\ x = r.set /\ o = op
    OBVIOUS
  <1>8. WellFormed(s) /\ s.capacity > 0 /\ s.count \in Nat
    BY <1>1, <1>5, <1>7, StateFacts
  <1>9. /\ \A m \in 0 .. s.count - 1 : At(x, m) = At(s, m)
        /\ r.ok => x.count = s.count + 1 /\ At(x, s.count) = e
        /\ ~r.ok => x.count = s.count
    BY <1>4, <1>6, <1>7, <1>8, InsertFacts
  <1>10. sets'[h] = x /\ \A g \in Handles : g # h => sets'[g] = sets[g]
    BY <1>1, <1>4, <1>7 DEF TypeOK
  <1>11. \A g \in given \ {h} : Bindings(g)' = Bindings(g)
    BY <1>5, <1>10, QuietSame
  <1>12. PICK n \in Nat : n = s.count
    BY <1>8
  <1>13. PICK f, g : f = Elems(s) /\ g = Elems(x)
    OBVIOUS
  <1>14. /\ \A m \in 0 .. n - 1 : f[m] = At(s, m) /\ g[m] = f[m]
         /\ r.ok => g[n] = e
    BY <1>9, <1>12, <1>13 DEF Elems
  <1>15. Bindings(h) = LastOf(0 .. n - 1, f)
    <2>1. BoundIn(s, o, h) = LastOf(0 .. n - 1, f)
      BY <1>5, <1>7, <1>8, <1>12, <1>13, QuietBound
    <2> QED
      BY <1>7, <2>1, BoundNow
  <1>16. x.count \in Nat => Bindings(h)' = LastOf(0 .. x.count - 1, g)
    <2>1. x.count \in Nat => BoundIn(x, o, h) = LastOf(0 .. x.count - 1, g)
      BY <1>5, <1>7, <1>13, QuietBound
    <2> QED
      BY <1>5, <1>7, <1>10, <2>1, BoundNow
  <1>17. CASE ~ r.ok
    <2>1. LastOf(0 .. n - 1, g) = LastOf(0 .. n - 1, f)
      <3>1. PICK D : D = 0 .. n - 1
        OBVIOUS
      <3>2. D \subseteq Nat /\ \A d \in D : g[d] = f[d]
        BY <1>14, <3>1
      <3> QED
        BY <3>1, <3>2, SameLast
    <2>2. Bindings(h)' = Bindings(h)
      BY <1>9, <1>12, <1>15, <1>16, <1>17, <2>1
    <2>3. Maps' = Maps
      BY <1>5, <1>11, <2>2, MapsKept
    <2>4. Answer' = Answer /\ writes' = writes
      BY <1>4, <1>5, <1>17, SameAnswer
    <2> QED
      BY <1>5, <2>3, <2>4
  <1>18. CASE r.ok
    <2>1. x.count \in Nat /\ x.count - 1 = n
      BY <1>9, <1>12, <1>18
    <2>2. LastOf(0 .. n, g) = {y \in LastOf(0 .. n - 1, f) : y.key \notin {e.key}} \cup {e}
      BY <1>14, <1>18, OneMoreLast
    <2>3. Bindings(h)' = {y \in Bindings(h) : y.key \notin {k}} \cup {e}
      BY <1>6, <1>15, <1>16, <2>1, <2>2
    <2>4. Maps' = [Maps EXCEPT ![h] = Bindings(h)']
      BY <1>5, <1>11, MapsChanged
    <2>5. Maps[h] = Bindings(h)
      BY <1>5, MapsAre
    <2>6. Maps' = [Maps EXCEPT ![h] = {y \in Maps[h] : y.key \notin {k}} \cup {e}]
      BY <2>3, <2>4, <2>5
    <2>7. Answer' = Answer /\ writes' = writes + 1
      BY <1>4, <1>5, <1>18, SameAnswer
    <2>8. e = [key |-> k, pos |-> writes', value |-> writes']
      BY <1>3, <2>7
    <2>9. Promise!Insert(h)
      BY <1>5, <2>6, <2>7, <2>8 DEF Promise!Insert, Promise!Unbind, Maps, Answer
    <2> QED
      BY <2>9 DEF Promise!Next
  <1> QED
    BY <1>17, <1>18

LEMMA SetValuePromised ==
  ASSUME SetsInv, NEW h \in Handles, nn_attrset_set_value(h)
  PROVE  Promise!Next
  <1>1. TypeOK /\ FrozenIsSorted
    BY DEF SetsInv
  <1>2. PICK i \in 0 .. sets[h].count - 1 : sets' = [sets EXCEPT ![h].values[i] = writes + 1]
    BY DEF nn_attrset_set_value
  <1>3. /\ writes \in Nat /\ writes < MaxWrites /\ MaxWrites \in Nat /\ writes' = writes + 1
        /\ h \in given /\ sets[h].frozen /\ op' = op /\ given' = given /\ op.kind = "none"
        /\ given \subseteq Handles /\ \A g \in Handles : sets[g].count \in Nat
    BY <1>1, StateFacts DEF nn_attrset_set_value, Frozen, Free
  <1>4. PICK v \in Words : v = writes + 1
    BY <1>3 DEF Words
  <1>5. PICK s, o : s = sets[h] /\ o = op
    OBVIOUS
  <1>6. PICK x : x = [s EXCEPT !.values = [@ EXCEPT ![i] = v]]
    OBVIOUS
  <1>7. WellFormed(s) /\ i \in 0 .. s.count - 1 /\ Strictly(s, 0, s.count) /\ s.count \in Nat
    BY <1>1, <1>2, <1>3, <1>5, StateFacts DEF FrozenIsSorted
  <1>8. /\ WellFormed(x) /\ x.count = s.count
        /\ At(x, i) = [At(s, i) EXCEPT !.value = v]
        /\ \A m \in 0 .. s.count - 1 : Key(x, m) = Key(s, m) /\ (m # i => At(x, m) = At(s, m))
    BY <1>6, <1>7, ValueFacts
  <1>9. Strictly(x, 0, x.count)
    BY <1>7, <1>8 DEF Strictly
  <1>10. sets' = [sets EXCEPT ![h] = x]
    BY <1>2, <1>4, <1>5, <1>6
  <1>11. sets'[h] = x /\ \A g \in Handles : g # h => sets'[g] = sets[g]
    BY <1>1, <1>10 DEF TypeOK
  <1>12. \A g \in given \ {h} : Bindings(g)' = Bindings(g)
    BY <1>3, <1>11, QuietSame
  <1>13. BoundIn(s, o, h) = Copied(s, s.count) /\ BoundIn(x, o, h) = Copied(x, s.count)
    BY <1>3, <1>5, <1>7, <1>8, <1>9, SortedBound
  <1>14. Bindings(h) = Copied(s, s.count) /\ Bindings(h)' = Copied(x, s.count)
    BY <1>3, <1>5, <1>11, <1>13, BoundNow
  <1>15. \A m \in 0 .. s.count - 1 : m # i => At(s, m) # At(s, i)
    <2> SUFFICES ASSUME NEW m \in 0 .. s.count - 1, m # i PROVE At(s, m) # At(s, i)
      OBVIOUS
    <2>1. m < i \/ i < m
      BY <1>7
    <2>2. Key(s, m) # Key(s, i)
      <3>1. Key(s, m) \in Nat /\ Key(s, i) \in Nat
        BY <1>7, Keyed
      <3>2. Key(s, m) < Key(s, i) \/ Key(s, i) < Key(s, m)
        BY <1>7, <2>1 DEF Strictly
      <3> QED
        BY <3>1, <3>2
    <2> QED
      BY <2>2, SameKey
  <1>16. PICK e : e = At(s, i)
    OBVIOUS
  <1>17. Copied(x, s.count) = (Copied(s, s.count) \ {e}) \cup {[e EXCEPT !.value = v]}
    BY <1>7, <1>8, <1>15, <1>16 DEF Copied
  <1>18. e \in Copied(s, s.count)
    BY <1>7, <1>16 DEF Copied
  <1>19. Maps' = [Maps EXCEPT ![h] = Bindings(h)']
    BY <1>3, <1>12, MapsChanged
  <1>20. Maps[h] = Bindings(h)
    BY <1>3, MapsAre
  <1>21. e \in Maps[h] /\ Maps' = [Maps EXCEPT ![h] = (Maps[h] \ {e}) \cup {[e EXCEPT !.value = writes']}]
    BY <1>3, <1>4, <1>14, <1>17, <1>18, <1>19, <1>20
  <1>22. Answer' = Answer
    BY <1>3, SameAnswer
  <1>23. Promise!SetValue(h)
    BY <1>3, <1>21, <1>22 DEF Promise!SetValue, Maps, Answer
  <1> QED
    BY <1>23 DEF Promise!Next

\* Freezing begins and, with one entry at most, ends at once.
LEMMA FreezePromised ==
  ASSUME SetsInv, NEW h \in Handles, Freeze(h)
  PROVE  UNCHANGED <<given, Maps, writes, Answer>>
  <1>1. TypeOK
    BY DEF SetsInv
  <1>2. /\ h \in given /\ given' = given /\ writes' = writes /\ op.kind = "none"
        /\ given \subseteq Handles /\ \A g \in Handles : sets[g].count \in Nat /\ WellFormed(sets[g])
    BY <1>1, StateFacts DEF Freeze, Building, Free
  <1>3. CASE sets[h].count <= 1
    <2>1. sets' = [sets EXCEPT ![h].frozen = TRUE] /\ op' = op
      BY <1>3 DEF Freeze
    <2>2. PICK s, x, o : s = sets[h] /\ x = [s EXCEPT !.frozen = TRUE] /\ o = op
      OBVIOUS
    <2>3. s \in AttrSet /\ s.count \in Nat
      BY <1>2, <2>2 DEF WellFormed
    <2>4. x.names = s.names /\ x.values = s.values /\ x.count = s.count /\ x.capacity = s.capacity
      BY <2>2, <2>3 DEF AttrSet
    <2>5. \A m : At(x, m) = At(s, m)
      BY <2>4 DEF At
    <2>6. Elems(x) = Elems(s)
      BY <2>5 DEF Elems
    <2>7. BoundIn(x, o, h) = BoundIn(s, o, h)
      <3>1. s.count \in Nat /\ x.count \in Nat /\ (o.set = h => o.kind \notin {"sift", "dedup"})
        BY <1>2, <2>2, <2>3, <2>4
      <3>2. BoundIn(s, o, h) = LastOf(0 .. s.count - 1, Elems(s))
        BY <3>1, QuietBound
      <3>3. BoundIn(x, o, h) = LastOf(0 .. x.count - 1, Elems(x))
        BY <3>1, QuietBound
      <3> QED
        BY <2>4, <2>6, <3>2, <3>3
    <2>8. sets'[h] = x /\ \A g \in Handles : g # h => sets'[g] = sets[g]
      BY <1>1, <2>1, <2>2 DEF TypeOK
    <2>9. Bindings(h)' = Bindings(h)
      BY <2>1, <2>2, <2>7, <2>8, BoundNow
    <2>10. \A g \in given : Bindings(g)' = Bindings(g)
      BY <1>2, <2>1, <2>8, <2>9, QuietSame
    <2> QED
      BY <1>2, <2>1, <2>10, MapsKept, SameAnswer
  <1>4. CASE ~ (sets[h].count <= 1)
    <2>1. sets' = sets /\ op' = [Call("sort", h) EXCEPT !.i = 1] /\ h \in 0 .. MaxSets
      BY <1>4 DEF Freeze, Handles
    <2>2. Call("sort", h) \in Calls /\ Call("sort", h).kind = "sort"
      BY <2>1, CallFacts
    <2>3. op'.kind = "sort"
      BY <2>1, <2>2 DEF Calls
    <2> QED
      BY <1>1, <1>2, <2>1, <2>3, QuietStep
  <1> QED
    BY <1>3, <1>4

\* No two entries of an ordered set swap their order when they share a key, and
\* nothing is lost: as many places as before, each from another one.
LEMMA SortingOnto ==
  ASSUME NEW s, WellFormed(s), NEW place \in Sorting(s)
  PROVE  /\ place \in [0 .. s.count - 1 -> 0 .. s.count - 1]
         /\ \A c \in 0 .. s.count - 1 : \E d \in 0 .. s.count - 1 : place[d] = c
         /\ \A d, e \in 0 .. s.count - 1 :
              d < e /\ Key(s, place[d]) = Key(s, place[e]) => place[d] < place[e]
  <1>1. s.count \in Nat
    BY SetFields DEF WellFormed
  <1>2. PICK n \in Nat : n = s.count
    BY <1>1
  <1>3. PICK D : D = 0 .. n - 1
    OBVIOUS
  <1>4. /\ place \in [D -> D]
        /\ \A d, e \in D : d < e => cmp_tagged(s, place[d], place[e])
    BY <1>2, <1>3 DEF Sorting
  <1>5. \A d \in D : Key(s, d) \in Nat /\ d \in Nat
    BY <1>2, <1>3, Keyed
  <1>6. ASSUME NEW d \in D, NEW e \in D, d < e PROVE place[d] # place[e]
    <2>1. cmp_tagged(s, place[d], place[e])
      BY <1>4, <1>6
    <2>2. place[d] \in D /\ Key(s, place[d]) \in Nat /\ place[d] \in Nat
      BY <1>4, <1>5
    <2> QED
      BY <2>1, <2>2 DEF cmp_tagged
  <1>7. \A d, e \in D : d # e => place[d] # place[e]
    <2> SUFFICES ASSUME NEW d \in D, NEW e \in D, d # e PROVE place[d] # place[e]
      OBVIOUS
    <2>1. d < e \/ e < d
      BY <1>5
    <2> QED
      BY <1>6, <2>1
  <1>8. place \in Injection(D, D)
    BY <1>4, <1>7 DEF Injection, IsInjective
  <1>9. IsFiniteSet(D)
    BY <1>2, <1>3, FS_Interval
  <1>10. place \in Surjection(D, D)
    BY <1>8, <1>9, FS_Injection
  <1>11. \A c \in D : \E d \in D : place[d] = c
    BY <1>10 DEF Surjection
  <1>12. \A d, e \in D : d < e /\ Key(s, place[d]) = Key(s, place[e]) => place[d] < place[e]
    <2> SUFFICES ASSUME NEW d \in D, NEW e \in D, d < e, Key(s, place[d]) = Key(s, place[e])
                 PROVE  place[d] < place[e]
      OBVIOUS
    <2>1. cmp_tagged(s, place[d], place[e])
      BY <1>4
    <2>2. Key(s, place[d]) \in Nat
      BY <1>4, <1>5
    <2> QED
      BY <2>1, <2>2 DEF cmp_tagged
  <1> QED
    BY <1>2, <1>3, <1>4, <1>11, <1>12

LEMMA qsortPromised ==
  ASSUME SetsInv, qsort
  PROVE  UNCHANGED <<given, Maps, writes, Answer>>
  <1>1. TypeOK /\ SortInv /\ op.kind = "sort"
    BY DEF SetsInv, qsort
  <1>2. /\ op.set \in given /\ given' = given /\ writes' = writes
        /\ op' = Call("dedup", op.set)
    BY <1>1 DEF qsort, SortInv
  <1>3. PICK h \in Handles : h = op.set
    BY <1>1, <1>2, StateFacts
  <1>4. PICK s, o, p : s = sets[h] /\ o = op /\ p = op'
    OBVIOUS
  <1>5. PICK place \in Sorting(s) : sets' = [sets EXCEPT ![h] = Rearranged(@, place)]
    BY <1>3, <1>4 DEF qsort, S
  <1>6. WellFormed(s) /\ s.count \in Nat
    BY <1>1, <1>3, <1>4, StateFacts
  <1>7. PICK x : x = Rearranged(s, place)
    OBVIOUS
  <1>8. /\ place \in [0 .. s.count - 1 -> 0 .. s.count - 1]
        /\ \A c \in 0 .. s.count - 1 : \E d \in 0 .. s.count - 1 : place[d] = c
        /\ \A d, e \in 0 .. s.count - 1 :
              d < e /\ Key(s, place[d]) = Key(s, place[e]) => place[d] < place[e]
    BY <1>6, SortingOnto
  <1>9. x.count = s.count /\ \A m \in 0 .. s.count - 1 : At(x, m) = At(s, place[m])
    <2>1. place \in [0 .. s.count - 1 -> 0 .. s.count - 1]
      BY <1>8
    <2>2. /\ Rearranged(s, place).count = s.count
          /\ \A m \in 0 .. s.count - 1 : At(Rearranged(s, place), m) = At(s, place[m])
      BY <1>6, <2>1, RearrangedFacts
    <2> QED
      BY <1>7, <2>2
  <1>10. PICK D, f, g : D = 0 .. s.count - 1 /\ f = Elems(s) /\ g = Elems(x)
    OBVIOUS
  <1>11. Moved(D, g, D, f, place)
    <2>1. D \subseteq Nat /\ place \in [D -> D]
      BY <1>8, <1>10
    <2>2. \A d \in D : g[d] = At(x, d) /\ f[place[d]] = At(s, place[d]) /\ g[d] = f[place[d]]
      BY <1>9, <1>10, <2>1 DEF Elems
    <2>3. \A d \in D : g[d].key = Key(s, place[d])
      <3>1. \A m : At(s, m).key = Key(s, m)
        BY DEF At, Key
      <3> QED
        BY <2>2, <3>1
    <2> QED
      BY <1>8, <1>10, <2>1, <2>2, <2>3 DEF Moved
  <1>12. LastOf(D, g) = LastOf(D, f)
    BY <1>11, MovedLast
  <1>13. h \in 0 .. MaxSets
    BY DEF Handles
  <1>14. p.kind = "dedup" /\ p.set = h /\ p.i = 0 /\ p.j = 0
    BY <1>2, <1>3, <1>4, <1>13, CallFacts
  <1>15. BoundIn(x, p, h) = LastOf(D, g)
    <2>1. BoundIn(x, p, h) = LastOf((0 .. p.j - 1) \cup (p.i .. x.count - 1), Elems(x))
      BY <1>6, <1>9, <1>14, DedupBound
    <2>2. (0 .. 0 - 1) \cup (0 .. s.count - 1) = D
      BY <1>10
    <2> QED
      BY <1>9, <1>10, <1>14, <2>1, <2>2
  <1>16. BoundIn(s, o, h) = LastOf(D, f)
    BY <1>1, <1>4, <1>6, <1>10, QuietBound
  <1>17. sets'[h] = x /\ \A g1 \in Handles : g1 # h => sets'[g1] = sets[g1]
    BY <1>1, <1>4, <1>5, <1>7 DEF TypeOK
  <1>18. Bindings(h)' = Bindings(h)
    BY <1>4, <1>12, <1>15, <1>16, <1>17, BoundNow
  <1> QED
    BY <1>1, <1>2, <1>3, <1>4, <1>14, <1>17, <1>18, LoopStep

LEMMA SortPickPromised ==
  ASSUME SetsInv, SortPick
  PROVE  UNCHANGED <<given, Maps, writes, Answer>>
  <1>1. TypeOK /\ SortInv /\ op.kind = "sort"
    BY DEF SetsInv, SortPick
  <1>2. PICK h \in Handles : h = op.set
    BY <1>1, StateFacts DEF SortInv
  <1>3. PICK s, o, p, e : s = sets[h] /\ o = op /\ p = op' /\ e = At(s, op.i)
    OBVIOUS
  <1>4. /\ op' = [op EXCEPT !.kind = "sift", !.j = op.i, !.entry = e]
        /\ sets' = sets /\ given' = given /\ writes' = writes /\ op \in Calls /\ op.i \in Nat
        /\ s.count \in Nat
    BY <1>1, <1>2, <1>3, StateFacts DEF SortPick, S, TypeOK
  <1>5. p.kind = "sift" /\ p.set = h /\ p.j = o.i /\ p.entry = e
    BY <1>2, <1>3, <1>4 DEF Calls
  <1>6. Elems(s)[o.i] = e
    BY <1>3, <1>4 DEF Elems
  <1>7. [Elems(s) EXCEPT ![p.j] = p.entry] = Elems(s)
    BY <1>5, <1>6 DEF Elems
  <1>8. BoundIn(s, p, h) = LastOf(0 .. s.count - 1, Elems(s))
    BY <1>4, <1>5, <1>7, SiftBound
  <1>9. BoundIn(s, o, h) = LastOf(0 .. s.count - 1, Elems(s))
    BY <1>1, <1>3, <1>4, QuietBound
  <1>10. Bindings(h)' = Bindings(h)
    BY <1>3, <1>4, <1>8, <1>9, BoundNow
  <1> QED
    BY <1>1, <1>2, <1>3, <1>4, <1>5, <1>10, LoopStep

\* One entry of a set is written.
LEMMA PutStep ==
  ASSUME TypeOK, NEW h \in Handles, NEW j \in 0 .. sets[h].count - 1, NEW e \in Entry,
         sets' = [sets EXCEPT ![h] = Put(@, j, e)]
  PROVE  /\ sets'[h].count = sets[h].count
         /\ At(sets'[h], j) = e
         /\ \A m \in 0 .. sets[h].count - 1 : m # j => At(sets'[h], m) = At(sets[h], m)
         /\ \A g \in Handles : g # h => sets'[g] = sets[g]
  <1>1. PICK s : s = sets[h]
    OBVIOUS
  <1>2. WellFormed(s) /\ s.count \in Nat /\ s.capacity \in Nat /\ s.count <= s.capacity
    BY <1>1, StateFacts
  <1>3. PICK x : x = Put(s, j, e)
    OBVIOUS
  <1>4. j \in 0 .. s.capacity - 1 /\ \A m \in 0 .. s.count - 1 : m \in 0 .. s.capacity - 1
    BY <1>1, <1>2
  <1>5. /\ x.count = s.count /\ At(x, j) = e
        /\ \A m \in 0 .. s.capacity - 1 : m # j => At(x, m) = At(s, m)
    BY <1>2, <1>3, <1>4, PutFacts, WellFormedIsRoomy
  <1>6. sets'[h] = x /\ \A g \in Handles : g # h => sets'[g] = sets[g]
    BY <1>1, <1>3 DEF TypeOK
  <1> QED
    BY <1>1, <1>4, <1>5, <1>6

\* Two neighbours with different keys change places, one of them in the hand of
\* the sort.
LEMMA SortShiftPromised ==
  ASSUME SetsInv, SortShift
  PROVE  UNCHANGED <<given, Maps, writes, Answer>>
  <1>1. TypeOK /\ SiftInv /\ op.kind = "sift"
    BY DEF SetsInv, SortShift
  <1>2. PICK h \in Handles : h = op.set
    BY <1>1, StateFacts DEF SiftInv
  <1>3. PICK s, o, p : s = sets[h] /\ o = op /\ p = op'
    OBVIOUS
  <1>4. /\ o.i \in 1 .. s.count - 1 /\ o.j \in 0 .. o.i /\ o.entry \in Entry /\ s.count \in Nat
        /\ o.i \in Nat /\ o.j \in Nat /\ op \in Calls /\ WellFormed(s)
    BY <1>1, <1>2, <1>3, StateFacts DEF SiftInv, S, TypeOK
  <1>5. /\ op.j > 0 /\ Key(s, op.j - 1) > op.entry.key
        /\ sets' = [sets EXCEPT ![h] = Put(@, op.j, At(s, op.j - 1))]
        /\ op' = [op EXCEPT !.j = op.j - 1]
        /\ given' = given /\ writes' = writes
    BY <1>1, <1>2, <1>3 DEF SortShift, S, TypeOK
  <1>6. PICK n \in Nat, i \in Nat, j \in Nat, b \in Nat :
          n = s.count /\ i = o.i /\ j = o.j /\ j > 0 /\ j <= i /\ i < n /\ b = j - 1
    BY <1>3, <1>4, <1>5
  <1>7. j \in 0 .. n - 1 /\ b \in 0 .. n - 1 /\ b # j /\ b < j
    BY <1>6
  <1>8. PICK e \in Entry : e = At(s, b)
    BY <1>4, <1>6, <1>7 DEF WellFormed
  <1>9. PICK x : x = sets'[h]
    OBVIOUS
  <1>10. /\ x.count = n /\ At(x, j) = e
         /\ \A m \in 0 .. n - 1 : m # j => At(x, m) = At(s, m)
         /\ \A g \in Handles : g # h => sets'[g] = sets[g]
    <2>1. sets' = [sets EXCEPT ![h] = Put(@, j, e)]
      BY <1>3, <1>5, <1>6, <1>8
    <2>2. j \in 0 .. sets[h].count - 1
      BY <1>3, <1>6, <1>7
    <2>3. /\ sets'[h].count = sets[h].count
          /\ At(sets'[h], j) = e
          /\ \A m \in 0 .. sets[h].count - 1 : m # j => At(sets'[h], m) = At(sets[h], m)
          /\ \A g \in Handles : g # h => sets'[g] = sets[g]
      BY <1>1, <2>1, <2>2, PutStep
    <2> QED
      BY <1>3, <1>6, <1>9, <2>3
  <1>11. p.kind = "sift" /\ p.set = h /\ p.j = b /\ p.entry = o.entry
    <2>1. op' = [op EXCEPT !.j = b]
      BY <1>3, <1>5, <1>6
    <2> QED
      BY <1>1, <1>2, <1>3, <1>4, <2>1 DEF Calls
  <1>12. PICK D, f, g : /\ D = 0 .. n - 1 /\ f = [Elems(s) EXCEPT ![j] = o.entry]
                        /\ g = [Elems(x) EXCEPT ![b] = o.entry]
    OBVIOUS
  <1>13. PICK from \in [D -> D] : /\ from[j] = b /\ from[b] = j
                                  /\ \A d \in D : d # j /\ d # b => from[d] = d
    <2>1. PICK swap : swap = [d \in D |-> IF d = j THEN b ELSE IF d = b THEN j ELSE d]
      OBVIOUS
    <2>2. swap \in [D -> D] /\ swap[j] = b /\ swap[b] = j /\ \A d \in D : d # j /\ d # b => swap[d] = d
      BY <1>7, <1>12, <2>1
    <2> QED
      BY <2>2
  <1>14. /\ f[j] = o.entry /\ f[b] = e /\ \A d \in D : d # j /\ d # b => f[d] = At(s, d)
         /\ g[b] = o.entry /\ g[j] = e /\ \A d \in D : d # j /\ d # b => g[d] = At(s, d)
    <2>1. D \subseteq Nat
      BY <1>12
    <2> QED
      BY <1>7, <1>8, <1>10, <1>12, <2>1 DEF Elems
  <1>15. Moved(D, g, D, f, from)
    <2>1. D \subseteq Nat /\ j \in D /\ b \in D
      BY <1>7, <1>12
    <2>2. \A c \in D : \E d \in D : from[d] = c
      BY <1>13, <2>1
    <2>3. \A d \in D : g[d] = f[from[d]]
      BY <1>13, <1>14, <2>1
    <2>4. g[j].key # g[b].key
      <3>1. e.key = Key(s, b) /\ e.key \in Nat /\ o.entry.key \in Nat
        BY <1>4, <1>8, AttrSetSizes DEF Entry, At, Key
      <3>2. e.key > o.entry.key
        BY <1>3, <1>5, <1>6, <3>1
      <3> QED
        BY <1>14, <3>1, <3>2
    <2>5. ASSUME NEW d \in D, NEW c \in D, d < c, g[d].key = g[c].key PROVE from[d] < from[c]
      <3>1. d \in Nat /\ c \in Nat
        BY <2>1
      <3>2. CASE d # j /\ d # b /\ c # j /\ c # b
        BY <1>13, <2>5, <3>2
      <3>3. CASE d = j
        <4>1. c # b /\ c # j /\ b < c
          BY <1>6, <2>5, <3>1, <3>3
        <4> QED
          BY <1>13, <3>3, <4>1
      <3>4. CASE d = b
        <4>1. c # j
          BY <2>4, <2>5, <3>4
        <4>2. c # b /\ j < c
          BY <1>6, <2>5, <3>1, <3>4, <4>1
        <4> QED
          BY <1>13, <3>4, <4>1, <4>2
      <3>5. CASE c = j
        <4>1. d # b
          BY <2>4, <2>5, <3>5
        <4>2. d # j /\ d < b
          BY <1>6, <2>5, <3>1, <3>5, <4>1
        <4> QED
          BY <1>13, <3>5, <4>1, <4>2
      <3>6. CASE c = b
        <4>1. d # j /\ d # b /\ d < j
          BY <1>6, <2>5, <3>1, <3>6
        <4> QED
          BY <1>13, <3>6, <4>1
      <3> QED
        BY <3>2, <3>3, <3>4, <3>5, <3>6
    <2> QED
      BY <2>1, <2>2, <2>3, <2>5 DEF Moved
  <1>16. LastOf(D, g) = LastOf(D, f)
    BY <1>15, MovedLast
  <1>17. BoundIn(s, o, h) = LastOf(D, f)
    BY <1>1, <1>2, <1>3, <1>6, <1>12, SiftBound
  <1>18. BoundIn(x, p, h) = LastOf(D, g)
    <2>1. x.count \in Nat
      BY <1>10
    <2>2. BoundIn(x, p, h) = LastOf(0 .. x.count - 1, [Elems(x) EXCEPT ![p.j] = p.entry])
      BY <1>11, <2>1, SiftBound
    <2> QED
      BY <1>10, <1>11, <1>12, <2>2
  <1>19. Bindings(h)' = Bindings(h)
    BY <1>3, <1>9, <1>16, <1>17, <1>18, BoundNow
  <1> QED
    BY <1>1, <1>2, <1>3, <1>5, <1>10, <1>11, <1>19, LoopStep

LEMMA SortPlacePromised ==
  ASSUME SetsInv, SortPlace
  PROVE  UNCHANGED <<given, Maps, writes, Answer>>
  <1>1. TypeOK /\ SiftInv /\ op.kind = "sift"
    BY DEF SetsInv, SortPlace
  <1>2. PICK h \in Handles : h = op.set
    BY <1>1, StateFacts DEF SiftInv
  <1>3. PICK s, o, p : s = sets[h] /\ o = op /\ p = op'
    OBVIOUS
  <1>4. /\ o.i \in 1 .. s.count - 1 /\ o.j \in 0 .. o.i /\ o.entry \in Entry /\ s.count \in Nat
        /\ o.i \in Nat /\ o.j \in Nat /\ op \in Calls
    BY <1>1, <1>2, <1>3, StateFacts DEF SiftInv, S, TypeOK
  <1>5. /\ sets' = [sets EXCEPT ![h] = Put(@, op.j, op.entry)]
        /\ op' = [op EXCEPT !.kind = "sort", !.i = op.i + 1]
        /\ given' = given /\ writes' = writes
    BY <1>2 DEF SortPlace
  <1>6. PICK n \in Nat, j \in Nat, e \in Entry : n = s.count /\ j = o.j /\ j \in 0 .. n - 1 /\ e = o.entry
    BY <1>4
  <1>7. PICK x : x = sets'[h]
    OBVIOUS
  <1>8. /\ x.count = n /\ At(x, j) = e
        /\ \A m \in 0 .. n - 1 : m # j => At(x, m) = At(s, m)
        /\ \A g \in Handles : g # h => sets'[g] = sets[g]
    <2>1. sets' = [sets EXCEPT ![h] = Put(@, j, e)]
      BY <1>3, <1>5, <1>6
    <2>2. j \in 0 .. sets[h].count - 1
      BY <1>3, <1>6
    <2>3. /\ sets'[h].count = sets[h].count
          /\ At(sets'[h], j) = e
          /\ \A m \in 0 .. sets[h].count - 1 : m # j => At(sets'[h], m) = At(sets[h], m)
          /\ \A g \in Handles : g # h => sets'[g] = sets[g]
      BY <1>1, <2>1, <2>2, PutStep
    <2> QED
      BY <1>3, <1>6, <1>7, <2>3
  <1>9. p.kind = "sort" /\ p.set = h
    <2>1. PICK m : m = op.i + 1
      OBVIOUS
    <2>2. op' = [op EXCEPT !.kind = "sort", !.i = m]
      BY <1>5, <2>1
    <2> QED
      BY <1>2, <1>3, <1>4, <2>2 DEF Calls
  <1>10. PICK D, f, g : /\ D = 0 .. n - 1 /\ f = [Elems(s) EXCEPT ![j] = e] /\ g = Elems(x)
    OBVIOUS
  <1>11. D \subseteq Nat /\ \A d \in D : g[d] = f[d]
    BY <1>6, <1>8, <1>10 DEF Elems
  <1>12. LastOf(D, g) = LastOf(D, f)
    BY <1>11, SameLast
  <1>13. BoundIn(s, o, h) = LastOf(D, f)
    BY <1>1, <1>2, <1>3, <1>6, <1>10, SiftBound
  <1>14. BoundIn(x, p, h) = LastOf(D, g)
    BY <1>8, <1>9, <1>10, QuietBound
  <1>15. Bindings(h)' = Bindings(h)
    BY <1>3, <1>7, <1>12, <1>13, <1>14, BoundNow
  <1> QED
    BY <1>1, <1>2, <1>3, <1>5, <1>8, <1>9, <1>15, LoopStep

LEMMA SortDonePromised ==
  ASSUME SetsInv, SortDone
  PROVE  UNCHANGED <<given, Maps, writes, Answer>>
  <1>1. TypeOK /\ SortInv /\ op.kind = "sort"
    BY DEF SetsInv, SortDone
  <1>2. PICK h \in Handles : h = op.set
    BY <1>1, StateFacts DEF SortInv
  <1>3. PICK s, o, p : s = sets[h] /\ o = op /\ p = op'
    OBVIOUS
  <1>4. /\ sets' = sets /\ given' = given /\ writes' = writes /\ op' = Call("dedup", h) /\ s.count \in Nat
        /\ h \in 0 .. MaxSets
    BY <1>1, <1>2, <1>3, StateFacts DEF SortDone, Handles
  <1>5. p.kind = "dedup" /\ p.set = h /\ p.i = 0 /\ p.j = 0
    BY <1>3, <1>4, CallFacts
  <1>6. BoundIn(s, p, h) = LastOf(0 .. s.count - 1, Elems(s))
    <2>1. BoundIn(s, p, h) = LastOf((0 .. p.j - 1) \cup (p.i .. s.count - 1), Elems(s))
      BY <1>4, <1>5, DedupBound
    <2>2. (0 .. 0 - 1) \cup (0 .. s.count - 1) = 0 .. s.count - 1
      BY <1>4
    <2> QED
      BY <1>5, <2>1, <2>2
  <1>7. BoundIn(s, o, h) = LastOf(0 .. s.count - 1, Elems(s))
    BY <1>1, <1>3, <1>4, QuietBound
  <1>8. Bindings(h)' = Bindings(h)
    BY <1>3, <1>4, <1>6, <1>7, BoundNow
  <1> QED
    BY <1>1, <1>2, <1>3, <1>4, <1>5, <1>8, LoopStep

\* The dropped entry has a later one with its key.
LEMMA DedupSkipPromised ==
  ASSUME SetsInv, DedupSkip
  PROVE  UNCHANGED <<given, Maps, writes, Answer>>
  <1>1. TypeOK /\ op.kind = "dedup"
    BY DEF SetsInv, DedupSkip
  <1>2. PICK h \in Handles : h = op.set
    BY <1>1, DedupFacts
  <1>3. PICK s, o, p : s = sets[h] /\ o = op /\ p = op'
    OBVIOUS
  <1>4. PICK i \in Nat, j \in Nat, n \in Nat : i = op.i /\ j = op.j /\ n = i + 1
    BY <1>1, DedupFacts
  <1>5. /\ sets' = sets /\ given' = given /\ writes' = writes /\ op' = [op EXCEPT !.i = n]
        /\ n < s.count /\ Key(s, i) = Key(s, n) /\ s.count \in Nat /\ op \in Calls
        /\ j <= i /\ \A x \in 0 .. j - 1, y \in i .. s.count - 1 : Key(s, x) < Key(s, y)
    BY <1>1, <1>2, <1>3, <1>4, DedupFacts DEF DedupSkip, SameKeyNext, S
  <1>6. p.kind = "dedup" /\ p.set = h /\ p.i = n /\ p.j = j
    BY <1>1, <1>2, <1>3, <1>4, <1>5 DEF Calls
  <1>7. PICK D, E, f : D = (0 .. j - 1) \cup (i .. s.count - 1) /\ E = (0 .. j - 1) \cup (n .. s.count - 1) /\ f = Elems(s)
    OBVIOUS
  <1>8. E = D \ {i} /\ D \subseteq Nat /\ i \in D /\ n \in D /\ n > i
    <2>1. i .. s.count - 1 = {i} \cup (n .. s.count - 1) /\ i \notin 0 .. j - 1 /\ i \notin n .. s.count - 1
      BY <1>4, <1>5
    <2>2. n \in i .. s.count - 1 /\ n > i
      BY <1>4, <1>5
    <2>3. D \subseteq Nat
      BY <1>7
    <2> QED
      BY <1>7, <2>1, <2>2, <2>3
  <1>9. f[n].key = f[i].key
    BY <1>5, <1>7 DEF Elems, At, Key
  <1>10. LastOf(E, f) = LastOf(D, f)
    BY <1>8, <1>9, DroppedLast
  <1>11. BoundIn(s, o, h) = LastOf(D, f)
    BY <1>1, <1>2, <1>3, <1>4, <1>5, <1>7, DedupBound
  <1>12. BoundIn(s, p, h) = LastOf(E, f)
    BY <1>4, <1>5, <1>6, <1>7, DedupBound
  <1>13. Bindings(h)' = Bindings(h)
    BY <1>3, <1>5, <1>10, <1>11, <1>12, BoundNow
  <1> QED
    BY <1>1, <1>2, <1>3, <1>5, <1>6, <1>13, LoopStep

LEMMA DedupKeepPromised ==
  ASSUME SetsInv, DedupKeep
  PROVE  UNCHANGED <<given, Maps, writes, Answer>>
  <1>1. TypeOK /\ op.kind = "dedup"
    BY DEF SetsInv, DedupKeep
  <1>2. PICK h \in Handles : h = op.set
    BY <1>1, DedupFacts
  <1>3. PICK s, o, p : s = sets[h] /\ o = op /\ p = op'
    OBVIOUS
  <1>4. PICK i \in Nat, j \in Nat, l \in Nat, m \in Nat : i = op.i /\ j = op.j /\ l = i + 1 /\ m = j + 1
    BY <1>1, DedupFacts
  <1>5. /\ given' = given /\ writes' = writes /\ op' = [op EXCEPT !.i = l, !.j = m]
        /\ sets' = [sets EXCEPT ![h] = Put(@, j, At(@, i))]
        /\ i < s.count /\ s.count \in Nat /\ WellFormed(s) /\ op \in Calls /\ j <= i
    BY <1>1, <1>2, <1>3, <1>4, DedupFacts DEF DedupKeep, S
  <1>6. PICK n \in Nat : n = s.count
    BY <1>5
  <1>7. i \in 0 .. n - 1 /\ j \in 0 .. n - 1 /\ l <= n /\ j <= i
    BY <1>4, <1>5, <1>6
  <1>8. PICK e \in Entry : e = At(s, i)
    BY <1>5, <1>6, <1>7 DEF WellFormed
  <1>9. PICK x : x = sets'[h]
    OBVIOUS
  <1>10. /\ x.count = n /\ At(x, j) = e
         /\ \A d \in 0 .. n - 1 : d # j => At(x, d) = At(s, d)
         /\ \A g \in Handles : g # h => sets'[g] = sets[g]
    <2>1. sets' = [sets EXCEPT ![h] = Put(@, j, e)]
      BY <1>3, <1>5, <1>8
    <2>2. j \in 0 .. sets[h].count - 1
      BY <1>3, <1>6, <1>7
    <2>3. /\ sets'[h].count = sets[h].count
          /\ At(sets'[h], j) = e
          /\ \A d \in 0 .. sets[h].count - 1 : d # j => At(sets'[h], d) = At(sets[h], d)
          /\ \A g \in Handles : g # h => sets'[g] = sets[g]
      BY <1>1, <2>1, <2>2, PutStep
    <2> QED
      BY <1>3, <1>6, <1>9, <2>3
  <1>11. p.kind = "dedup" /\ p.set = h /\ p.i = l /\ p.j = m
    BY <1>1, <1>2, <1>3, <1>4, <1>5 DEF Calls
  <1>12. PICK D, E, f, g : /\ D = (0 .. j - 1) \cup (i .. n - 1) /\ E = (0 .. m - 1) \cup (l .. n - 1)
                           /\ f = Elems(s) /\ g = Elems(x)
    OBVIOUS
  <1>13. /\ D \subseteq Nat /\ E \subseteq Nat /\ i \in D /\ j \in E
         /\ \A d \in E : d # j => d \in D /\ d \in 0 .. n - 1 /\ d # i /\ (j < d => i < d) /\ (d < j => d < i)
         /\ \A d \in D : d # i => d \in E /\ d # j
    <2>1. \A d : d \in D <=> d \in Nat /\ (d < j \/ (i <= d /\ d < n))
      BY <1>4, <1>7, <1>12
    <2>2. \A d : d \in E <=> d \in Nat /\ (d <= j \/ (i < d /\ d < n))
      BY <1>4, <1>7, <1>12
    <2>3. i < n /\ j <= i
      BY <1>7
    <2>4. D \subseteq Nat /\ E \subseteq Nat /\ i \in D /\ j \in E
      BY <2>1, <2>2, <2>3
    <2>5. ASSUME NEW d \in E, d # j
          PROVE  d \in D /\ d \in 0 .. n - 1 /\ d # i /\ (j < d => i < d) /\ (d < j => d < i)
      <3>1. d \in Nat /\ (d <= j \/ (i < d /\ d < n))
        BY <2>2
      <3>2. d < j \/ (i < d /\ d < n)
        BY <2>5, <3>1
      <3> QED
        BY <2>1, <2>3, <3>1, <3>2
    <2>6. ASSUME NEW d \in D, d # i
          PROVE  d \in E /\ d # j
      <3>1. d \in Nat /\ (d < j \/ (i <= d /\ d < n))
        BY <2>1
      <3> QED
        BY <2>2, <2>3, <2>6, <3>1
    <2> QED
      BY <2>4, <2>5, <2>6
  <1>14. PICK from \in [E -> D] : from[j] = i /\ \A d \in E : d # j => from[d] = d
    <2>1. PICK put : put = [d \in E |-> IF d = j THEN i ELSE d]
      OBVIOUS
    <2>2. put \in [E -> D] /\ put[j] = i /\ \A d \in E : d # j => put[d] = d
      BY <1>13, <2>1
    <2> QED
      BY <2>2
  <1>15. /\ f[i] = e /\ g[j] = e
         /\ \A d \in E : d # j => g[d] = f[d]
    <2>1. i \in Nat /\ j \in Nat /\ \A d \in E : d \in Nat
      BY <1>13
    <2>2. \A d \in E : d # j => At(x, d) = At(s, d)
      BY <1>10, <1>13
    <2> QED
      BY <1>8, <1>10, <1>12, <2>1, <2>2 DEF Elems
  <1>16. Moved(E, g, D, f, from)
    <2>1. \A c \in D : \E d \in E : from[d] = c
      BY <1>13, <1>14
    <2>2. \A d \in E : g[d] = f[from[d]]
      BY <1>14, <1>15
    <2>3. ASSUME NEW d \in E, NEW c \in E, d < c PROVE from[d] < from[c]
      <3>1. d # j => from[d] = d /\ (d < j => d < i)
        BY <1>13, <1>14
      <3>2. c # j => from[c] = c /\ (j < c => i < c)
        BY <1>13, <1>14
      <3>3. c \in Nat /\ d \in Nat
        BY <1>13
      <3>4. CASE d = j
        <4>1. c # j /\ j < c
          BY <2>3, <3>3, <3>4
        <4> QED
          BY <1>14, <3>2, <3>4, <4>1
      <3>5. CASE c = j
        <4>1. d # j /\ d < j
          BY <2>3, <3>3, <3>5
        <4> QED
          BY <1>14, <3>1, <3>5, <4>1
      <3>6. CASE d # j /\ c # j
        BY <2>3, <3>1, <3>2, <3>6
      <3> QED
        BY <3>4, <3>5, <3>6
    <2> QED
      BY <1>13, <2>1, <2>2, <2>3 DEF Moved
  <1>17. LastOf(E, g) = LastOf(D, f)
    BY <1>16, MovedLast
  <1>18. BoundIn(s, o, h) = LastOf(D, f)
    BY <1>1, <1>2, <1>3, <1>4, <1>5, <1>6, <1>12, DedupBound
  <1>19. BoundIn(x, p, h) = LastOf(E, g)
    <2>1. x.count \in Nat /\ p.i \in Nat /\ p.j \in Nat
      BY <1>4, <1>10, <1>11
    <2>2. BoundIn(x, p, h) = LastOf((0 .. p.j - 1) \cup (p.i .. x.count - 1), Elems(x))
      BY <1>11, <2>1, DedupBound
    <2> QED
      BY <1>10, <1>11, <1>12, <2>2
  <1>20. Bindings(h)' = Bindings(h)
    BY <1>3, <1>9, <1>17, <1>18, <1>19, BoundNow
  <1> QED
    BY <1>1, <1>2, <1>3, <1>5, <1>10, <1>11, <1>20, LoopStep

LEMMA DedupDonePromised ==
  ASSUME SetsInv, DedupDone
  PROVE  UNCHANGED <<given, Maps, writes, Answer>>
  <1>1. TypeOK /\ op.kind = "dedup"
    BY DEF SetsInv, DedupDone
  <1>2. PICK h \in Handles : h = op.set
    BY <1>1, DedupFacts
  <1>3. PICK s, o, p : s = sets[h] /\ o = op /\ p = op'
    OBVIOUS
  <1>4. PICK j \in Nat, n \in Nat : j = op.j /\ n = s.count
    BY <1>1, <1>2, <1>3, DedupFacts DEF S
  <1>5. /\ given' = given /\ writes' = writes /\ op' = Idle /\ op.i = n /\ WellFormed(s)
        /\ sets' = [sets EXCEPT ![h].count = j, ![h].frozen = TRUE]
    <2>1. op.i \in Nat /\ op.i <= S.count /\ op.i >= S.count /\ S.count \in Nat
      BY <1>1, DedupFacts DEF DedupDone
    <2>2. S = s /\ WellFormed(S)
      BY <1>1, <1>2, <1>3, DedupFacts DEF S
    <2>3. op.i = n
      BY <1>4, <2>1, <2>2
    <2> QED
      BY <1>2, <1>4, <2>2, <2>3 DEF DedupDone
  <1>6. PICK x : x = [s EXCEPT !.count = j, !.frozen = TRUE]
    OBVIOUS
  <1>7. x.names = s.names /\ x.values = s.values /\ x.count = j /\ x.capacity = s.capacity
    BY <1>5, <1>6 DEF WellFormed, AttrSet
  <1>8. Elems(x) = Elems(s)
    BY <1>7 DEF At, Elems
  <1>9. sets'[h] = x /\ \A g \in Handles : g # h => sets'[g] = sets[g]
    BY <1>1, <1>3, <1>5, <1>6 DEF TypeOK
  <1>10. p.kind = "none" /\ p.set = 0
    BY <1>3, <1>5 DEF Idle
  <1>11. BoundIn(s, o, h) = LastOf(0 .. j - 1, Elems(s))
    <2>1. BoundIn(s, o, h) = LastOf((0 .. o.j - 1) \cup (o.i .. s.count - 1), Elems(s))
      BY <1>1, <1>2, <1>3, <1>4, <1>5, DedupBound
    <2>2. (0 .. j - 1) \cup (n .. n - 1) = 0 .. j - 1
      BY <1>4
    <2> QED
      BY <1>3, <1>4, <1>5, <2>1, <2>2
  <1>12. BoundIn(x, p, h) = LastOf(0 .. j - 1, Elems(s))
    <2>1. x.count \in Nat
      BY <1>7
    <2>2. BoundIn(x, p, h) = LastOf(0 .. x.count - 1, Elems(x))
      BY <1>10, <2>1, QuietBound
    <2> QED
      BY <1>7, <1>8, <2>2
  <1>13. Bindings(h)' = Bindings(h)
    BY <1>3, <1>9, <1>11, <1>12, BoundNow
  <1> QED
    BY <1>1, <1>2, <1>3, <1>5, <1>9, <1>10, <1>13, LoopStep

-----------------------------------------------------------------------------
(* Searches: nothing shows but the answer.                                  *)

LEMMA SearchBeginsPromised ==
  ASSUME SetsInv, NEW h \in Handles, NEW k \in Lookups, Search(h, k)
  PROVE  UNCHANGED <<given, Maps, writes, Answer>>
  <1>1. TypeOK /\ h \in 0 .. MaxSets
    BY DEF SetsInv, Handles
  <1>2. PICK c, n, keys : c = Call("search", h) /\ n = sets[h].count /\ keys = {k}
    OBVIOUS
  <1>3. /\ op.kind = "none" /\ sets' = sets /\ given' = given /\ writes' = writes
        /\ op' = [c EXCEPT !.j = n, !.keys = keys]
    BY <1>2 DEF Search, Free
  <1>4. c \in Calls /\ c.kind = "search"
    BY <1>1, <1>2, CallFacts
  <1>5. op'.kind = "search"
    BY <1>3, <1>4 DEF Calls
  <1> QED
    BY <1>1, <1>3, <1>5, QuietStep

LEMMA HalvingPromised ==
  ASSUME SetsInv, SearchRight \/ SearchLeft
  PROVE  UNCHANGED <<given, Maps, writes, Answer>>
  <1>1. TypeOK /\ op.kind = "search" /\ sets' = sets /\ given' = given /\ writes' = writes /\ op \in Calls
    BY DEF SetsInv, SearchRight, SearchLeft, TypeOK
  <1>2. PICK right, left : right = Mid + 1 /\ left = Mid
    OBVIOUS
  <1>3. op' = [op EXCEPT !.i = right] \/ op' = [op EXCEPT !.j = left]
    BY <1>2 DEF SearchRight, SearchLeft
  <1>4. op'.kind = "search"
    BY <1>1, <1>3 DEF Calls
  <1> QED
    BY <1>1, <1>4, QuietStep

\* Halving has left no entry with the key, or found the one there is.
LEMMA SearchEndsPromised ==
  ASSUME SetsInv, SearchEnds
  PROVE  Promise!Next
  <1>1. TypeOK /\ op.kind = "search" /\ sets' = sets /\ given' = given /\ writes' = writes
    BY DEF SetsInv, SearchEnds
  <1>2. PICK h \in Handles : h = op.set
    BY <1>1, SearchFacts
  <1>3. PICK s, k, i, j, mid : s = sets[h] /\ k = Sought /\ i = op.i /\ j = op.j /\ mid = Mid
    OBVIOUS
  <1>4. /\ h \in given /\ s.frozen /\ s.count \in Nat /\ i \in Nat /\ j \in Nat /\ i <= j /\ j <= s.count
        /\ i < j => mid \in 0 .. s.count - 1
        /\ k \in Keys /\ k \in Nat
        /\ \A x \in 0 .. s.count - 1 : Key(s, x) \in Nat
        /\ \A x \in 0 .. i - 1 : Key(s, x) < k
        /\ \A x \in j .. s.count - 1 : k < Key(s, x)
    BY <1>1, <1>2, <1>3, SearchFacts DEF S
  <1>5. PICK e : e = IF i < j THEN At(s, mid) ELSE Absent
    OBVIOUS
  <1>6. op'.kind = "answer" /\ op'.entry = e
    <2>1. PICK c : c = Call("answer", h)
      OBVIOUS
    <2>2. op' = [c EXCEPT !.entry = e]
      BY <1>2, <1>3, <1>5, <2>1 DEF SearchEnds, S
    <2>3. c \in Calls /\ c.kind = "answer"
      BY <2>1, CallFacts DEF Handles
    <2> QED
      BY <2>2, <2>3 DEF Calls
  <1>7. i < j => Key(s, mid) = k
    BY <1>2, <1>3 DEF SearchEnds, S
  <1>8. Maps[h] = Copied(s, s.count)
    BY <1>3, <1>4, FrozenQuiet, MapsAre
  <1>9. Answer = << >> /\ Answer' = <<e>> /\ <<e>> # << >>
    BY <1>1, <1>6 DEF Answer
  <1>10. Maps' = Maps
    <2>1. ASSUME NEW g \in given PROVE Bindings(g)' = Bindings(g)
      <3>1. sets[g].count \in Nat /\ sets'[g] = sets[g]
        BY <1>1, StateFacts
      <3> QED
        BY <1>1, <1>6, <3>1, QuietSame
    <2> QED
      BY <1>1, <2>1, MapsKept
  <1>11. CASE i < j
    <2>1. e = At(s, mid) /\ mid \in 0 .. s.count - 1
      BY <1>4, <1>5, <1>11
    <2>2. e \in Maps[h]
      BY <1>8, <2>1 DEF Copied
    <2>3. e.key = k
      BY <1>7, <1>11, <2>1 DEF At, Key
    <2>4. Promise!Search(h, k)
      BY <1>1, <1>4, <1>9, <1>10, <2>2, <2>3 DEF Promise!Search, Maps, Answer
    <2> QED
      BY <1>4, <2>4 DEF Promise!Next
  <1>12. CASE ~ (i < j)
    <2>1. e = Absent
      BY <1>5, <1>12
    <2>2. ASSUME NEW x \in 0 .. s.count - 1 PROVE At(s, x).key # k
      <3>1. At(s, x).key = Key(s, x)
        BY DEF At, Key
      <3>2. x \in 0 .. i - 1 \/ x \in j .. s.count - 1
        BY <1>4, <1>12
      <3>3. Key(s, x) \in Nat /\ (Key(s, x) < k \/ k < Key(s, x))
        BY <1>4, <3>2
      <3> QED
        BY <1>4, <3>1, <3>3
    <2>3. k \notin {y.key : y \in Maps[h]}
      BY <1>8, <2>2 DEF Copied
    <2>4. Promise!Search(h, k)
      BY <1>1, <1>4, <1>9, <1>10, <2>1, <2>3 DEF Promise!Search, Promise!KeysOf, Maps, Answer
    <2> QED
      BY <1>4, <2>4 DEF Promise!Next
  <1> QED
    BY <1>11, <1>12

LEMMA ReturnPromised ==
  ASSUME SetsInv, Return
  PROVE  Promise!Next
  <1>1. TypeOK /\ op.kind = "answer" /\ sets' = sets /\ given' = given /\ writes' = writes
    BY DEF SetsInv, Return
  <1>2. op'.kind = "none"
    BY IdleFacts DEF Return
  <1>3. Answer' = << >>
    BY <1>2 DEF Answer
  <1>4. ASSUME NEW g \in given PROVE Bindings(g)' = Bindings(g)
    <2>1. sets[g].count \in Nat /\ sets'[g] = sets[g]
      BY <1>1, StateFacts
    <2> QED
      BY <1>1, <1>2, <2>1, QuietSame
  <1>5. Maps' = Maps
    BY <1>1, <1>4, MapsKept
  <1>6. Promise!Return
    BY <1>1, <1>3, <1>5 DEF Promise!Return, Maps, Answer
  <1> QED
    BY <1>6 DEF Promise!Next

-----------------------------------------------------------------------------
(* Unions and removals: what has been copied so far.                        *)

KeysIn(s) == {Key(s, x) : x \in 0 .. s.count - 1}

Kept(a, i, keys) == {e \in Copied(a, i) : e.key \notin keys}
Merged(a, i, b, j) == Kept(a, i, KeysIn(b)) \cup Copied(b, j)

\* The result so far: of each side what was passed, and of the left side only
\* the keys that the right side or the caller leaves it.
MergeInv ==
  /\ op.kind = "union"  => Copied(S, S.count) = Merged(sets[op.a], op.i, sets[op.b], op.j)
  /\ op.kind = "remove" => Copied(S, S.count) = Kept(sets[op.a], op.i, op.keys)

LEMMA OneMoreCopied ==
  ASSUME NEW s, NEW n \in Nat
  PROVE  Copied(s, n + 1) = Copied(s, n) \cup {At(s, n)}
  <1>1. 0 .. (n + 1) - 1 = (0 .. n - 1) \cup {n}
    OBVIOUS
  <1> QED
    BY <1>1 DEF Copied

LEMMA NoneCopied ==
  ASSUME NEW s
  PROVE  Copied(s, 0) = {}
  <1>1. 0 .. 0 - 1 = {}
    OBVIOUS
  <1> QED
    BY <1>1 DEF Copied

LEMMA SameCopied ==
  ASSUME NEW s, NEW x, NEW n, \A m \in 0 .. n - 1 : At(x, m) = At(s, m)
  PROVE  Copied(x, n) = Copied(s, n)
  BY DEF Copied

\* An insertion into the result leaves the sides alone, and ends the call when
\* it is refused.
LEMMA CopyGrows ==
  ASSUME SetsInv, op.kind \in {"union", "remove"}, NEW e \in Entry, NEW i2 \in Nat, NEW j2 \in Nat, NEW next,
         next = [op EXCEPT !.i = i2, !.j = j2], Copy(e, next)
  PROVE  /\ given' = given /\ writes' = writes
         /\ \A g \in given : sets'[g] = sets[g]
         /\ op' = Idle
            \/ /\ op'.kind = op.kind /\ op'.set = op.set /\ op'.a = op.a /\ op'.b = op.b
               /\ op'.keys = op.keys /\ op'.i = i2 /\ op'.j = j2
               /\ Copied(S', S'.count) = Copied(S, S.count) \cup {e}
  <1>1. TypeOK
    BY DEF SetsInv
  <1>2. PICK h, s : h = op.set /\ s = S
    OBVIOUS
  <1>3. /\ h \in Handles /\ h \notin given /\ s = sets[h] /\ WellFormed(s) /\ s.capacity > 0 /\ s.count \in Nat
        /\ op \in Calls
    BY <1>1, <1>2, CopyFacts DEF S
  <1>4. PICK r \in nn_attrset_insert(s, e) :
          sets' = [sets EXCEPT ![h] = r.set] /\ op' = IF r.ok THEN next ELSE Idle
    BY <1>2 DEF Copy
  <1>5. given' = given /\ writes' = writes /\ given \subseteq Handles
    BY <1>1, StateFacts DEF Copy
  <1>6. PICK x : x = r.set
    OBVIOUS
  <1>7. sets'[h] = x /\ \A g \in given : sets'[g] = sets[g]
    BY <1>1, <1>3, <1>4, <1>5, <1>6 DEF TypeOK
  <1>8. CASE ~ r.ok
    BY <1>4, <1>5, <1>7, <1>8
  <1>9. CASE r.ok
    <2>1. op' = [op EXCEPT !.i = i2, !.j = j2]
      BY <1>4, <1>9
    <2>2. /\ op'.kind = op.kind /\ op'.set = h /\ op'.a = op.a /\ op'.b = op.b
          /\ op'.keys = op.keys /\ op'.i = i2 /\ op'.j = j2
      BY <1>2, <1>3, <2>1 DEF Calls
    <2>3. PICK n \in Nat : n = s.count
      BY <1>3
    <2>4. x.count = n + 1 /\ At(x, n) = e /\ \A m \in 0 .. n - 1 : At(x, m) = At(s, m)
      BY <1>3, <1>4, <1>6, <1>9, <2>3, InsertFacts
    <2>5. Copied(x, n + 1) = Copied(x, n) \cup {At(x, n)} /\ Copied(x, n) = Copied(s, n)
      BY <2>4, OneMoreCopied, SameCopied
    <2>6. S' = x
      BY <1>7, <2>2 DEF S
    <2>7. Copied(S', S'.count) = Copied(S, S.count) \cup {e}
      BY <1>2, <2>3, <2>4, <2>5, <2>6
    <2> QED
      BY <1>2, <1>5, <1>7, <2>2, <2>7
  <1> QED
    BY <1>8, <1>9

\* What the caller holds does not change.
LEMMA CopyPromised ==
  ASSUME SetsInv, op.kind \in {"union", "remove"}, NEW e \in Entry, NEW i2 \in Nat, NEW j2 \in Nat, NEW next,
         next = [op EXCEPT !.i = i2, !.j = j2], Copy(e, next)
  PROVE  UNCHANGED <<given, Maps, writes, Answer>>
  <1>1. /\ given' = given /\ writes' = writes /\ \A g \in given : sets'[g] = sets[g]
        /\ op' = Idle \/ op'.kind = op.kind
    BY CopyGrows
  <1>2. TypeOK /\ op'.kind \in {"none", "union", "remove"}
    BY <1>1, IdleFacts DEF SetsInv
  <1> QED
    BY <1>1, <1>2, QuietStep

\* An entry of the left side that the right side does not have.
LEMMA KeptMore ==
  ASSUME NEW a, NEW i \in Nat, NEW keys, NEW e, e = At(a, i)
  PROVE  /\ e.key \notin keys => Kept(a, i + 1, keys) = Kept(a, i, keys) \cup {e}
         /\ e.key \in keys => Kept(a, i + 1, keys) = Kept(a, i, keys)
  <1>1. Copied(a, i + 1) = Copied(a, i) \cup {e}
    BY OneMoreCopied
  <1> QED
    BY <1>1 DEF Kept

LEMMA MergeLeftContent ==
  ASSUME SetsInv, MergeInv, MergeLeft
  PROVE  UNCHANGED <<given, Maps, writes, Answer>> /\ MergeInv'
  <1>1. /\ op.kind = "union" /\ LeftOver /\ (RightOver => KeyA < KeyB)
        /\ Copy(At(sets[op.a], op.i), [op EXCEPT !.i = op.i + 1])
    BY DEF MergeLeft
  <1>2. PICK s, a, b, i, j : s = S /\ a = sets[op.a] /\ b = sets[op.b] /\ i = op.i /\ j = op.j
    OBVIOUS
  <1>3. /\ i \in Nat /\ j \in Nat /\ a.count \in Nat /\ b.count \in Nat /\ i < a.count /\ j <= b.count
        /\ Strictly(b, 0, b.count) /\ op \in Calls /\ op.a \in given /\ op.b \in given
        /\ \A y \in 0 .. a.count - 1 : Key(a, y) \in Nat /\ At(a, y) \in Entry
        /\ \A y \in 0 .. b.count - 1 : Key(b, y) \in Nat
        /\ s.count \in Nat /\ \A x \in 0 .. s.count - 1 : Key(s, x) \in Nat
        /\ \A x \in 0 .. s.count - 1 : \A y \in i .. a.count - 1 : Key(s, x) < Key(a, y)
    BY <1>1, <1>2, CopyFacts DEF LeftOver
  <1>4. i \in 0 .. a.count - 1 /\ i \in i .. a.count - 1
    BY <1>3
  <1>5. PICK e \in Entry : e = At(a, i)
    BY <1>3, <1>4
  <1>6. e.key = Key(a, i) /\ e.key \in Nat
    BY <1>3, <1>4, <1>5 DEF At, Key
  <1>7. PICK n \in Nat : n = i + 1
    BY <1>3
  <1>8. PICK next : next = [op EXCEPT !.i = n, !.j = j]
    OBVIOUS
  <1>9. Copy(e, next)
    <2>1. next = [op EXCEPT !.i = n]
      BY <1>2, <1>3, <1>8 DEF Calls
    <2> QED
      BY <1>1, <1>2, <1>5, <1>7, <2>1
  <1>10. Copied(s, s.count) = Merged(a, i, b, j)
    BY <1>1, <1>2 DEF MergeInv
  <1>11. e.key \notin KeysIn(b)
    <2> SUFFICES ASSUME NEW y \in 0 .. b.count - 1, e.key = Key(b, y)
                 PROVE  FALSE
      BY DEF KeysIn
    <2>1. CASE y < j
      <3>1. y \in 0 .. j - 1
        BY <1>3, <2>1
      <3>2. At(b, y) \in Copied(s, s.count)
        BY <1>10, <3>1 DEF Merged, Copied
      <3>3. PICK x \in 0 .. s.count - 1 : At(s, x) = At(b, y)
        BY <3>2 DEF Copied
      <3>4. Key(s, x) = Key(b, y)
        BY <3>3, SameKey
      <3>5. Key(s, x) < Key(a, i)
        BY <1>3, <1>4
      <3>6. PICK k \in Nat : k = e.key
        BY <1>6
      <3>7. k < k
        BY <1>6, <3>4, <3>5, <3>6
      <3> QED
        BY <3>7
    <2>2. CASE ~ (y < j)
      <3>1. j < b.count /\ j \in 0 .. b.count - 1 /\ (y = j \/ j < y)
        BY <1>3, <2>2
      <3>2. e.key < Key(b, j)
        BY <1>1, <1>2, <1>6, <3>1 DEF RightOver, KeyA, KeyB
      <3>3. j < y => Key(b, j) < Key(b, y)
        BY <1>3, <3>1 DEF Strictly
      <3>4. PICK k \in Nat, l \in Nat : k = Key(b, y) /\ l = Key(b, j)
        BY <1>3, <3>1
      <3>5. k < l /\ (y = j \/ l < k)
        BY <3>1, <3>2, <3>3, <3>4
      <3>6. y = j => k = l
        BY <3>4
      <3> QED
        BY <3>4, <3>5, <3>6
    <2> QED
      BY <2>1, <2>2
  <1>12. Merged(a, n, b, j) = Merged(a, i, b, j) \cup {e}
    <2>1. Kept(a, i + 1, KeysIn(b)) = Kept(a, i, KeysIn(b)) \cup {e}
      BY <1>3, <1>5, <1>11, KeptMore
    <2> QED
      BY <1>7, <2>1 DEF Merged
  <1>13. UNCHANGED <<given, Maps, writes, Answer>>
    BY <1>1, <1>3, <1>8, <1>9, CopyPromised
  <1>14. /\ \A g \in given : sets'[g] = sets[g]
         /\ op' = Idle
            \/ /\ op'.kind = op.kind /\ op'.set = op.set /\ op'.a = op.a /\ op'.b = op.b
               /\ op'.keys = op.keys /\ op'.i = n /\ op'.j = j
               /\ Copied(S', S'.count) = Copied(S, S.count) \cup {e}
    BY <1>1, <1>3, <1>8, <1>9, CopyGrows
  <1>15. MergeInv'
    <2>1. CASE op' = Idle
      BY <2>1, IdleFacts DEF MergeInv
    <2>2. CASE op' # Idle
      <3>1. op'.kind = "union" /\ sets'[op'.a] = a /\ sets'[op'.b] = b /\ op'.i = n /\ op'.j = j
            /\ Copied(S', S'.count) = Copied(s, s.count) \cup {e}
        BY <1>1, <1>2, <1>3, <1>14, <2>2
      <3>2. Copied(S', S'.count) = Merged(sets'[op'.a], op'.i, sets'[op'.b], op'.j)
        BY <1>10, <1>12, <3>1
      <3> QED
        BY <3>1, <3>2 DEF MergeInv
    <2> QED
      BY <2>1, <2>2
  <1> QED
    BY <1>13, <1>15

\* The right side wins.
LEMMA MergeRightContent ==
  ASSUME SetsInv, MergeInv, MergeRight
  PROVE  UNCHANGED <<given, Maps, writes, Answer>> /\ MergeInv'
  <1>1. /\ op.kind = "union" /\ RightOver
        /\ Copy(At(sets[op.b], op.j), [op EXCEPT !.j = op.j + 1])
    BY DEF MergeRight
  <1>2. PICK s, a, b, i, j : s = S /\ a = sets[op.a] /\ b = sets[op.b] /\ i = op.i /\ j = op.j
    OBVIOUS
  <1>3. /\ i \in Nat /\ j \in Nat /\ b.count \in Nat /\ j < b.count /\ op \in Calls
        /\ op.a \in given /\ op.b \in given
        /\ \A y \in 0 .. b.count - 1 : At(b, y) \in Entry
    BY <1>1, <1>2, CopyFacts DEF RightOver
  <1>4. j \in 0 .. b.count - 1
    BY <1>3
  <1>5. PICK e \in Entry : e = At(b, j)
    BY <1>3, <1>4
  <1>6. PICK n \in Nat : n = j + 1
    BY <1>3
  <1>7. PICK next : next = [op EXCEPT !.i = i, !.j = n]
    OBVIOUS
  <1>8. Copy(e, next)
    <2>1. next = [op EXCEPT !.j = n]
      BY <1>2, <1>3, <1>7 DEF Calls
    <2> QED
      BY <1>1, <1>2, <1>5, <1>6, <2>1
  <1>9. Copied(s, s.count) = Merged(a, i, b, j)
    BY <1>1, <1>2 DEF MergeInv
  <1>10. Merged(a, i, b, n) = Merged(a, i, b, j) \cup {e}
    <2>1. Copied(b, j + 1) = Copied(b, j) \cup {At(b, j)}
      BY <1>3, OneMoreCopied
    <2> QED
      BY <1>5, <1>6, <2>1 DEF Merged
  <1>11. UNCHANGED <<given, Maps, writes, Answer>>
    BY <1>1, <1>3, <1>7, <1>8, CopyPromised
  <1>12. /\ \A g \in given : sets'[g] = sets[g]
         /\ op' = Idle
            \/ /\ op'.kind = op.kind /\ op'.set = op.set /\ op'.a = op.a /\ op'.b = op.b
               /\ op'.keys = op.keys /\ op'.i = i /\ op'.j = n
               /\ Copied(S', S'.count) = Copied(S, S.count) \cup {e}
    BY <1>1, <1>3, <1>7, <1>8, CopyGrows
  <1>13. MergeInv'
    <2>1. CASE op' = Idle
      BY <2>1, IdleFacts DEF MergeInv
    <2>2. CASE op' # Idle
      <3>1. op'.kind = "union" /\ sets'[op'.a] = a /\ sets'[op'.b] = b /\ op'.i = i /\ op'.j = n
            /\ Copied(S', S'.count) = Copied(s, s.count) \cup {e}
        BY <1>1, <1>2, <1>3, <1>12, <2>2
      <3>2. Copied(S', S'.count) = Merged(sets'[op'.a], op'.i, sets'[op'.b], op'.j)
        BY <1>9, <1>10, <3>1
      <3> QED
        BY <3>1, <3>2 DEF MergeInv
    <2> QED
      BY <2>1, <2>2
  <1> QED
    BY <1>11, <1>13

LEMMA MergeBothContent ==
  ASSUME SetsInv, MergeInv, MergeBoth
  PROVE  UNCHANGED <<given, Maps, writes, Answer>> /\ MergeInv'
  <1>1. /\ op.kind = "union" /\ LeftOver /\ RightOver /\ KeyA = KeyB
        /\ Copy(At(sets[op.b], op.j), [op EXCEPT !.i = op.i + 1, !.j = op.j + 1])
    BY DEF MergeBoth
  <1>2. PICK s, a, b, i, j : s = S /\ a = sets[op.a] /\ b = sets[op.b] /\ i = op.i /\ j = op.j
    OBVIOUS
  <1>3. /\ i \in Nat /\ j \in Nat /\ b.count \in Nat /\ j < b.count
        /\ op.a \in given /\ op.b \in given
        /\ \A y \in 0 .. b.count - 1 : At(b, y) \in Entry
        /\ Key(a, i) = Key(b, j)
    BY <1>1, <1>2, CopyFacts DEF RightOver, KeyA, KeyB
  <1>4. j \in 0 .. b.count - 1
    BY <1>3
  <1>5. PICK e \in Entry : e = At(b, j)
    BY <1>3, <1>4
  <1>6. PICK m \in Nat, n \in Nat : m = i + 1 /\ n = j + 1
    BY <1>3
  <1>7. PICK next : next = [op EXCEPT !.i = m, !.j = n]
    OBVIOUS
  <1>8. Copy(e, next)
    BY <1>1, <1>2, <1>5, <1>6, <1>7
  <1>9. Copied(s, s.count) = Merged(a, i, b, j)
    BY <1>1, <1>2 DEF MergeInv
  <1>10. Merged(a, m, b, n) = Merged(a, i, b, j) \cup {e}
    <2>1. Copied(b, j + 1) = Copied(b, j) \cup {At(b, j)}
      BY <1>3, OneMoreCopied
    <2>2. At(a, i).key \in KeysIn(b)
      <3>1. At(a, i).key = Key(a, i)
        BY DEF At, Key
      <3> QED
        BY <1>3, <1>4, <3>1 DEF KeysIn
    <2>3. Kept(a, i + 1, KeysIn(b)) = Kept(a, i, KeysIn(b))
      BY <1>3, <2>2, KeptMore
    <2> QED
      BY <1>5, <1>6, <2>1, <2>3 DEF Merged
  <1>11. UNCHANGED <<given, Maps, writes, Answer>>
    BY <1>1, <1>3, <1>7, <1>8, CopyPromised
  <1>12. /\ \A g \in given : sets'[g] = sets[g]
         /\ op' = Idle
            \/ /\ op'.kind = op.kind /\ op'.set = op.set /\ op'.a = op.a /\ op'.b = op.b
               /\ op'.keys = op.keys /\ op'.i = m /\ op'.j = n
               /\ Copied(S', S'.count) = Copied(S, S.count) \cup {e}
    BY <1>1, <1>3, <1>7, <1>8, CopyGrows
  <1>13. MergeInv'
    <2>1. CASE op' = Idle
      BY <2>1, IdleFacts DEF MergeInv
    <2>2. CASE op' # Idle
      <3>1. op'.kind = "union" /\ sets'[op'.a] = a /\ sets'[op'.b] = b /\ op'.i = m /\ op'.j = n
            /\ Copied(S', S'.count) = Copied(s, s.count) \cup {e}
        BY <1>1, <1>2, <1>3, <1>12, <2>2
      <3>2. Copied(S', S'.count) = Merged(sets'[op'.a], op'.i, sets'[op'.b], op'.j)
        BY <1>9, <1>10, <3>1
      <3> QED
        BY <3>1, <3>2 DEF MergeInv
    <2> QED
      BY <2>1, <2>2
  <1> QED
    BY <1>11, <1>13

LEMMA RemoveKeepContent ==
  ASSUME SetsInv, MergeInv, RemoveKeep
  PROVE  UNCHANGED <<given, Maps, writes, Answer>> /\ MergeInv'
  <1>1. /\ op.kind = "remove" /\ LeftOver /\ KeyA \notin op.keys
        /\ Copy(At(sets[op.a], op.i), [op EXCEPT !.i = op.i + 1])
    BY DEF RemoveKeep
  <1>2. PICK s, a, i, j, keys : s = S /\ a = sets[op.a] /\ i = op.i /\ j = op.j /\ keys = op.keys
    OBVIOUS
  <1>3. /\ i \in Nat /\ j \in Nat /\ a.count \in Nat /\ i < a.count /\ op \in Calls /\ op.a \in given
        /\ \A y \in 0 .. a.count - 1 : At(a, y) \in Entry
    BY <1>1, <1>2, CopyFacts DEF LeftOver
  <1>4. i \in 0 .. a.count - 1
    BY <1>3
  <1>5. PICK e \in Entry : e = At(a, i)
    BY <1>3, <1>4
  <1>6. e.key \notin keys
    BY <1>1, <1>2, <1>5 DEF At, Key, KeyA
  <1>7. PICK n \in Nat : n = i + 1
    BY <1>3
  <1>8. PICK next : next = [op EXCEPT !.i = n, !.j = j]
    OBVIOUS
  <1>9. Copy(e, next)
    <2>1. next = [op EXCEPT !.i = n]
      BY <1>2, <1>3, <1>8 DEF Calls
    <2> QED
      BY <1>1, <1>2, <1>5, <1>7, <2>1
  <1>10. Copied(s, s.count) = Kept(a, i, keys)
    BY <1>1, <1>2 DEF MergeInv
  <1>11. Kept(a, n, keys) = Kept(a, i, keys) \cup {e}
    <2>1. Kept(a, i + 1, keys) = Kept(a, i, keys) \cup {e}
      BY <1>3, <1>5, <1>6, KeptMore
    <2> QED
      BY <1>7, <2>1
  <1>12. UNCHANGED <<given, Maps, writes, Answer>>
    BY <1>1, <1>3, <1>8, <1>9, CopyPromised
  <1>13. /\ \A g \in given : sets'[g] = sets[g]
         /\ op' = Idle
            \/ /\ op'.kind = op.kind /\ op'.set = op.set /\ op'.a = op.a /\ op'.b = op.b
               /\ op'.keys = op.keys /\ op'.i = n /\ op'.j = j
               /\ Copied(S', S'.count) = Copied(S, S.count) \cup {e}
    BY <1>1, <1>3, <1>8, <1>9, CopyGrows
  <1>14. MergeInv'
    <2>1. CASE op' = Idle
      BY <2>1, IdleFacts DEF MergeInv
    <2>2. CASE op' # Idle
      <3>1. op'.kind = "remove" /\ sets'[op'.a] = a /\ op'.i = n /\ op'.keys = keys
            /\ Copied(S', S'.count) = Copied(s, s.count) \cup {e}
        BY <1>1, <1>2, <1>3, <1>13, <2>2
      <3>2. Copied(S', S'.count) = Kept(sets'[op'.a], op'.i, op'.keys)
        BY <1>10, <1>11, <3>1
      <3> QED
        BY <3>1, <3>2 DEF MergeInv
    <2> QED
      BY <2>1, <2>2
  <1> QED
    BY <1>12, <1>14

LEMMA RemoveSkipContent ==
  ASSUME SetsInv, MergeInv, RemoveSkip
  PROVE  UNCHANGED <<given, Maps, writes, Answer>> /\ MergeInv'
  <1>1. /\ TypeOK /\ op.kind = "remove" /\ KeyA \in op.keys /\ op \in Calls
        /\ sets' = sets /\ given' = given /\ writes' = writes /\ op' = [op EXCEPT !.i = op.i + 1]
    BY DEF SetsInv, TypeOK, RemoveSkip
  <1>2. PICK s, a, i, keys : s = S /\ a = sets[op.a] /\ i = op.i /\ keys = op.keys
    OBVIOUS
  <1>3. i \in Nat
    BY <1>1, <1>2, StateFacts
  <1>4. PICK n \in Nat : n = i + 1
    BY <1>3
  <1>5. op'.kind = "remove" /\ op'.set = op.set /\ op'.a = op.a /\ op'.i = n /\ op'.keys = keys
    <2>1. op' = [op EXCEPT !.i = n]
      BY <1>1, <1>2, <1>4
    <2> QED
      BY <1>1, <1>2, <2>1 DEF Calls
  <1>6. Kept(a, n, keys) = Kept(a, i, keys)
    <2>1. At(a, i).key \in keys
      BY <1>1, <1>2 DEF At, Key, KeyA
    <2>2. Kept(a, i + 1, keys) = Kept(a, i, keys)
      BY <1>3, <2>1, KeptMore
    <2> QED
      BY <1>4, <2>2
  <1>7. Copied(s, s.count) = Kept(a, i, keys)
    BY <1>1, <1>2 DEF MergeInv
  <1>8. S' = s /\ sets'[op'.a] = a
    BY <1>1, <1>2, <1>5 DEF S
  <1>9. Copied(S', S'.count) = Kept(sets'[op'.a], op'.i, op'.keys)
    BY <1>5, <1>6, <1>7, <1>8
  <1>10. MergeInv'
    BY <1>5, <1>9 DEF MergeInv
  <1> QED
    BY <1>1, <1>5, <1>10, QuietStep

\* A union or a removal begins with a set nobody holds, and with nothing in it.
LEMMA BeginContent ==
  ASSUME SetsInv, NEW c \in 0 .. MaxEntries, Make(c), op.kind = "none", op'.kind \in {"union", "remove"},
         op'.set = tracked + 1, op'.i = 0, op'.j = 0, given' = given, writes' = writes
  PROVE  UNCHANGED <<given, Maps, writes, Answer>> /\ MergeInv'
  <1>1. TypeOK /\ FrozenIsSorted
    BY DEF SetsInv
  <1>2. PICK h, m : h = tracked + 1 /\ m = Made(c)
    OBVIOUS
  <1>3. /\ h \notin given /\ sets'[h] = m /\ m.count = 0
        /\ \A g \in Handles : g # h => sets'[g] = sets[g]
    BY <1>1, <1>2, MakeFacts
  <1>4. \A g \in given : sets'[g] = sets[g]
    BY <1>1, <1>3, StateFacts
  <1>5. UNCHANGED <<given, Maps, writes, Answer>>
    BY <1>1, <1>4, QuietStep
  <1>6. S' = m /\ Copied(m, m.count) = {}
    BY <1>2, <1>3, NoneCopied DEF S
  <1>7. ASSUME NEW a, NEW keys PROVE Kept(a, 0, keys) = {}
    BY NoneCopied DEF Kept
  <1>8. ASSUME NEW a, NEW b PROVE Merged(a, 0, b, 0) = {}
    BY <1>7, NoneCopied DEF Merged
  <1>9. MergeInv'
    BY <1>6, <1>7, <1>8 DEF MergeInv
  <1> QED
    BY <1>5, <1>9

LEMMA UnionBeginsContent ==
  ASSUME SetsInv, NEW a \in Handles, NEW b \in Handles, nn_attrset_union(a, b)
  PROVE  UNCHANGED <<given, Maps, writes, Answer>> /\ MergeInv'
  <1>1. TypeOK
    BY DEF SetsInv
  <1>2. PICK total : total = sets[a].count + sets[b].count
    OBVIOUS
  <1>3. PICK c : c = IF total > MaxEntries THEN MaxEntries ELSE total
    OBVIOUS
  <1>4. sets[a].count \in Nat /\ sets[b].count \in Nat /\ MaxEntries \in Nat
    BY <1>1, StateFacts, AttrSetSizes
  <1>5. c \in 0 .. MaxEntries
    BY <1>2, <1>3, <1>4
  <1>6. PICK k : k = Call("union", tracked + 1)
    OBVIOUS
  <1>7. /\ Make(c) /\ op.kind = "none" /\ op' = [k EXCEPT !.a = a, !.b = b] /\ given' = given /\ writes' = writes
    BY <1>2, <1>3, <1>6 DEF nn_attrset_union, Free
  <1>8. tracked + 1 \in 0 .. MaxSets
    BY <1>7 DEF Make, Handles
  <1>9. /\ k \in Calls /\ k.kind = "union" /\ k.set = tracked + 1 /\ k.i = 0 /\ k.j = 0
    BY <1>6, <1>8, CallFacts
  <1>10. op'.kind = "union" /\ op'.set = tracked + 1 /\ op'.i = 0 /\ op'.j = 0
    BY <1>7, <1>9 DEF Calls
  <1> QED
    BY <1>5, <1>7, <1>10, BeginContent

LEMMA RemoveBeginsContent ==
  ASSUME SetsInv, NEW a \in Handles, NEW keys \in Removals, nn_attrset_remove_keys(a, keys)
  PROVE  UNCHANGED <<given, Maps, writes, Answer>> /\ MergeInv'
  <1>1. TypeOK
    BY DEF SetsInv
  <1>2. PICK c : c = sets[a].count
    OBVIOUS
  <1>3. c \in 0 .. MaxEntries
    <2>1. WellFormed(sets[a])
      BY <1>1, StateFacts
    <2> QED
      BY <1>2, <2>1 DEF WellFormed, AttrSet
  <1>4. PICK k : k = Call("remove", tracked + 1)
    OBVIOUS
  <1>5. /\ Make(c) /\ op.kind = "none" /\ op' = [k EXCEPT !.a = a, !.keys = keys] /\ given' = given /\ writes' = writes
    BY <1>2, <1>4 DEF nn_attrset_remove_keys, Free
  <1>6. tracked + 1 \in 0 .. MaxSets
    BY <1>5 DEF Make, Handles
  <1>7. /\ k \in Calls /\ k.kind = "remove" /\ k.set = tracked + 1 /\ k.i = 0 /\ k.j = 0
    BY <1>4, <1>6, CallFacts
  <1>8. op'.kind = "remove" /\ op'.set = tracked + 1 /\ op'.i = 0 /\ op'.j = 0
    BY <1>5, <1>7 DEF Calls
  <1> QED
    BY <1>3, <1>5, <1>8, BeginContent

\* Every key of a sorted set is in its map.
LEMMA KeysCopied ==
  ASSUME NEW s
  PROVE  {e.key : e \in Copied(s, s.count)} = KeysIn(s)
  <1>1. \A x : At(s, x).key = Key(s, x)
    BY DEF At, Key
  <1> QED
    BY <1>1 DEF Copied, KeysIn

\* The result is handed out.
LEMMA CopyDonePromised ==
  ASSUME SetsInv, MergeInv, CopyDone
  PROVE  Promise!Next
  <1>1. /\ TypeOK /\ op.kind \in {"union", "remove"} /\ given' = given \cup {op.set} /\ writes' = writes
        /\ op' = Idle /\ sets' = [sets EXCEPT ![op.set].frozen = TRUE] /\ op \in Calls
    BY DEF SetsInv, TypeOK, CopyDone
  <1>2. PICK h, s : h = op.set /\ s = S
    OBVIOUS
  <1>3. PICK a, i, keys : a \in given /\ a = op.a /\ i = op.i /\ keys = op.keys
    BY <1>1, CopyFacts
  <1>4. /\ a \in given /\ h \in Handles /\ h \notin given /\ s = sets[h] /\ WellFormed(s) /\ Strictly(s, 0, s.count)
        /\ sets[a].frozen /\ sets[a].count \in Nat /\ i \in Nat /\ i <= sets[a].count
        /\ given \subseteq Handles /\ \A g \in given : sets[g].count \in Nat
        /\ keys \in SUBSET Keys
    BY <1>1, <1>2, <1>3, CopyFacts, StateFacts DEF S, Calls
  <1>5. PICK x : x = [s EXCEPT !.frozen = TRUE]
    OBVIOUS
  <1>6. x.names = s.names /\ x.values = s.values /\ x.count = s.count /\ x.capacity = s.capacity /\ x \in AttrSet
    BY <1>4, <1>5 DEF AttrSet, WellFormed
  <1>7. \A m : At(x, m) = At(s, m) /\ Key(x, m) = Key(s, m)
    BY <1>6 DEF At, Key
  <1>8. WellFormed(x) /\ Strictly(x, 0, x.count) /\ Copied(x, x.count) = Copied(s, s.count)
    BY <1>4, <1>6, <1>7 DEF WellFormed, Strictly, Copied
  <1>9. sets'[h] = x /\ \A g \in Handles : g # h => sets'[g] = sets[g]
    BY <1>1, <1>2, <1>4, <1>5 DEF TypeOK
  <1>10. op'.kind = "none"
    BY <1>1, IdleFacts
  <1>11. Bindings(h)' = Copied(s, s.count)
    <2>1. PICK p : p = op'
      OBVIOUS
    <2>2. BoundIn(x, p, h) = Copied(x, x.count)
      BY <1>8, <1>10, <2>1, SortedBound
    <2> QED
      BY <1>8, <1>9, <2>1, <2>2, BoundNow
  <1>12. ASSUME NEW g \in given \ {h} PROVE Bindings(g)' = Bindings(g)
    <2>1. sets[g].count \in Nat /\ sets'[g] = sets[g]
      BY <1>4, <1>9
    <2> QED
      BY <1>1, <1>10, <2>1, QuietSame
  <1>13. Maps' = [Maps EXCEPT ![h] = Copied(s, s.count)]
    BY <1>1, <1>2, <1>4, <1>11, <1>12, MapsChanged
  <1>14. Answer' = Answer
    BY <1>1, <1>10, SameAnswer
  <1>15. Maps[a] = Copied(sets[a], sets[a].count)
    BY <1>4, FrozenQuiet, MapsAre
  <1>16. i = sets[a].count
    BY <1>3, <1>4 DEF CopyDone, LeftOver
  <1>17. CASE op.kind = "union"
    <2>1. PICK b, j : b \in given /\ b = op.b /\ j = op.j
      BY <1>1, <1>17, CopyFacts
    <2>2. sets[b].frozen /\ sets[b].count \in Nat /\ j \in Nat /\ j <= sets[b].count /\ ~ (j < sets[b].count)
      BY <1>17, <2>1, CopyFacts DEF CopyDone, RightOver
    <2>3. Maps[b] = Copied(sets[b], sets[b].count)
      BY <1>4, <2>1, <2>2, FrozenQuiet, MapsAre
    <2>4. Copied(s, s.count) = Merged(sets[a], sets[a].count, sets[b], sets[b].count)
      <3>1. j = sets[b].count
        BY <2>2
      <3> QED
        BY <1>2, <1>3, <1>16, <1>17, <2>1, <3>1 DEF MergeInv
    <2>5. Copied(s, s.count) = {e \in Maps[a] : e.key \notin {f.key : f \in Maps[b]}} \cup Maps[b]
      BY <1>15, <2>3, <2>4, KeysCopied DEF Merged, Kept
    <2>6. Maps' = [Maps EXCEPT ![h] = {e \in Maps[a] : e.key \notin {f.key : f \in Maps[b]}} \cup Maps[b]]
      BY <1>13, <2>5
    <2>7. Promise!Union(h, a, b)
      BY <1>1, <1>2, <1>4, <1>14, <2>1, <2>6
      DEF Promise!Union, Promise!Give, Promise!Unbind, Promise!KeysOf, Maps, Answer
    <2> QED
      BY <1>4, <2>1, <2>7 DEF Promise!Next
  <1>18. CASE op.kind = "remove"
    <2>1. Copied(s, s.count) = Kept(sets[a], sets[a].count, keys)
      BY <1>2, <1>3, <1>16, <1>18 DEF MergeInv
    <2>2. Copied(s, s.count) = {e \in Maps[a] : e.key \notin keys}
      BY <1>15, <2>1 DEF Kept
    <2>3. Maps' = [Maps EXCEPT ![h] = {e \in Maps[a] : e.key \notin keys}]
      BY <1>13, <2>2
    <2>4. Promise!RemoveKeys(h, a, keys)
      BY <1>1, <1>2, <1>4, <1>14, <2>3 DEF Promise!RemoveKeys, Promise!Give, Promise!Unbind, Maps, Answer
    <2> QED
      BY <1>4, <2>4 DEF Promise!Next
  <1> QED
    BY <1>1, <1>17, <1>18

LEMMA FreeAllPromised ==
  ASSUME SetsInv, nn_attrset_free_all
  PROVE  Promise!Next
  <1>1. given' = {} /\ op' = Call("over", 0) /\ writes' = writes /\ op.kind = "none" /\ 0 \in 0 .. MaxSets
    BY AttrSetSizes DEF nn_attrset_free_all, Free
  <1>2. op'.kind = "over"
    BY <1>1, CallFacts
  <1>3. Maps' = [h \in Handles |-> {}]
    BY <1>1 DEF Maps
  <1>4. Answer' = Answer
    BY <1>1, <1>2, SameAnswer
  <1>5. Promise!FreeAll
    BY <1>1, <1>3, <1>4 DEF Promise!FreeAll, Maps, Answer
  <1> QED
    BY <1>5 DEF Promise!Next

\* A call that is no copy says nothing of one.
LEMMA ElsewhereKind ==
  ASSUME SetsInv, op.kind \notin {"union", "remove"}, op' = op
  PROVE  MergeInv'
  BY DEF MergeInv

LEMMA SortKind ==
  ASSUME SetsInv,
         \/ qsort \/ SortPick \/ SortShift \/ SortPlace \/ SortDone
         \/ DedupSkip \/ DedupKeep \/ DedupDone \/ SearchRight \/ SearchLeft \/ SearchEnds \/ Return
  PROVE  MergeInv'
  <1>1. op \in Calls /\ op.kind \in {"none", "sort", "sift", "dedup", "search", "answer"}
    BY DEF SetsInv, TypeOK, qsort, SortPick, SortShift, SortPlace, SortDone, DedupSkip, DedupKeep, DedupDone,
           SearchRight, SearchLeft, SearchEnds, Return
  <1>2. ASSUME NEW i, NEW j, NEW e,
               \/ op' = [op EXCEPT !.i = i] \/ op' = [op EXCEPT !.j = j] \/ op' = [op EXCEPT !.i = i, !.j = j]
               \/ op' = [op EXCEPT !.kind = "sift", !.j = j, !.entry = e]
               \/ op' = [op EXCEPT !.kind = "sort", !.i = i]
        PROVE  op'.kind \in {op.kind, "sift", "sort"}
    BY <1>1, <1>2 DEF Calls
  <1>3. \A kind, g, i, e : /\ Call(kind, g).kind = kind
                           /\ [Call(kind, g) EXCEPT !.i = i].kind = kind
                           /\ [Call(kind, g) EXCEPT !.entry = e].kind = kind
    BY DEF Call, Idle
  <1>4. op'.kind \notin {"union", "remove"}
    <2>1. CASE qsort \/ SortDone
      <3>1. PICK g : g = op.set
        OBVIOUS
      <3>2. op' = Call("dedup", g)
        BY <2>1, <3>1 DEF qsort, SortDone
      <3>3. Call("dedup", g).kind = "dedup"
        BY <1>3
      <3> QED
        BY <3>2, <3>3
    <2>2. CASE SearchEnds
      <3>1. PICK g : g = op.set
        OBVIOUS
      <3>2. PICK e : e = IF op.i < op.j THEN At(S, Mid) ELSE Absent
        OBVIOUS
      <3>3. op' = [Call("answer", g) EXCEPT !.entry = e]
        BY <2>2, <3>1, <3>2 DEF SearchEnds
      <3>4. [Call("answer", g) EXCEPT !.entry = e].kind = "answer"
        BY <1>3
      <3> QED
        BY <3>3, <3>4
    <2>3. CASE SortPick
      <3>1. PICK j, e : j = op.i /\ e = At(S, op.i)
        OBVIOUS
      <3>2. op' = [op EXCEPT !.kind = "sift", !.j = j, !.entry = e]
        BY <2>3, <3>1 DEF SortPick
      <3> QED
        BY <1>2, <3>2
    <2>4. CASE SortShift \/ SortPlace \/ DedupSkip \/ DedupKeep \/ SearchRight \/ SearchLeft
      <3>1. PICK i, j, l, m : i = op.i + 1 /\ j = op.j + 1 /\ l = op.j - 1 /\ m = Mid + 1
        OBVIOUS
      <3>2. \/ op' = [op EXCEPT !.i = i] \/ op' = [op EXCEPT !.i = m] \/ op' = [op EXCEPT !.j = l]
            \/ op' = [op EXCEPT !.j = Mid] \/ op' = [op EXCEPT !.i = i, !.j = j]
            \/ op' = [op EXCEPT !.kind = "sort", !.i = i]
        BY <2>4, <3>1 DEF SortShift, SortPlace, DedupSkip, DedupKeep, SearchRight, SearchLeft
      <3>3. op'.kind \in {op.kind, "sift", "sort"}
        BY <1>2, <3>2
      <3> QED
        BY <1>1, <3>3
    <2>5. CASE DedupDone \/ Return
      BY <2>5, IdleFacts DEF DedupDone, Return
    <2> QED
      BY <2>1, <2>2, <2>3, <2>4, <2>5
  <1> QED
    BY <1>4 DEF MergeInv

\* No other action begins or moves a copy.
LEMMA CallerKind ==
  ASSUME SetsInv, NEW h \in Handles, Insert(h) \/ nn_attrset_set_value(h) \/ Freeze(h)
  PROVE  MergeInv'
  <1>1. op.kind = "none" /\ (op' = op \/ op' = [Call("sort", h) EXCEPT !.i = 1])
    BY DEF Insert, nn_attrset_set_value, Freeze, Free
  <1>2. CASE op' = op
    BY <1>1, <1>2, ElsewhereKind
  <1>3. CASE op' = [Call("sort", h) EXCEPT !.i = 1]
    <2>1. PICK o : o = Call("sort", h)
      OBVIOUS
    <2>2. o \in Calls /\ o.kind = "sort"
      BY <2>1, CallFacts DEF Handles
    <2>3. op'.kind = "sort"
      BY <1>3, <2>1, <2>2 DEF Calls
    <2> QED
      BY <2>3 DEF MergeInv
  <1> QED
    BY <1>1, <1>2, <1>3

LEMMA SearchKind ==
  ASSUME SetsInv, NEW h \in Handles, NEW k \in Lookups, Search(h, k)
  PROVE  MergeInv'
  <1>1. PICK j, keys : j = sets[h].count /\ keys = {k}
    OBVIOUS
  <1>2. PICK o : o = Call("search", h)
    OBVIOUS
  <1>3. op' = [o EXCEPT !.j = j, !.keys = keys]
    BY <1>1, <1>2 DEF Search
  <1>4. o \in Calls /\ o.kind = "search"
    BY <1>2, CallFacts DEF Handles
  <1>5. op'.kind = "search"
    BY <1>3, <1>4 DEF Calls
  <1> QED
    BY <1>5 DEF MergeInv

LEMMA EndKind ==
  ASSUME CopyDone \/ nn_attrset_free_all
  PROVE  MergeInv'
  <1>1. CASE CopyDone
    <2>1. op'.kind = "none"
      BY <1>1, IdleFacts DEF CopyDone
    <2> QED
      BY <2>1 DEF MergeInv
  <1>2. CASE nn_attrset_free_all
    <2>1. op' = Call("over", 0) /\ 0 \in 0 .. MaxSets
      BY <1>2, AttrSetSizes DEF nn_attrset_free_all
    <2>2. op'.kind = "over"
      BY <2>1, CallFacts
    <2> QED
      BY <2>2 DEF MergeInv
  <1> QED
    BY <1>1, <1>2

LEMMA StepPromised ==
  ASSUME SetsInv, MergeInv, [Next]_vars
  PROVE  (Promise!Next \/ UNCHANGED <<given, Maps, writes, Answer>>) /\ MergeInv'
  <1> DEFINE Goal == (Promise!Next \/ UNCHANGED <<given, Maps, writes, Answer>>) /\ MergeInv'
  <1>1. CASE UNCHANGED vars
    <2>1. MergeInv'
      BY <1>1 DEF vars, MergeInv, S
    <2>2. UNCHANGED <<given, Maps, writes, Answer>>
      BY <1>1 DEF vars, Maps, Answer, Bindings, Live, Elem
    <2> QED
      BY <2>1, <2>2
  <1>2. ASSUME NEW c \in Capacities, nn_attrset_new(c) PROVE Goal
    <2>1. op' = op /\ op.kind = "none"
      BY <1>2 DEF nn_attrset_new, Free
    <2> QED
      BY <1>2, <2>1, ElsewhereKind, NewPromised
  <1>3. ASSUME NEW h \in Handles, Insert(h) \/ nn_attrset_set_value(h) \/ Freeze(h) PROVE Goal
    BY <1>3, CallerKind, InsertPromised, SetValuePromised, FreezePromised
  <1>4. ASSUME NEW h \in Handles, NEW k \in Lookups, Search(h, k) PROVE Goal
    BY <1>4, SearchKind, SearchBeginsPromised
  <1>5. ASSUME NEW a \in Handles, NEW b \in Handles, nn_attrset_union(a, b) PROVE Goal
    BY <1>5, UnionBeginsContent
  <1>6. ASSUME NEW a \in Handles, NEW keys \in Removals, nn_attrset_remove_keys(a, keys) PROVE Goal
    BY <1>6, RemoveBeginsContent
  <1>7. CASE nn_attrset_free_all
    BY <1>7, EndKind, FreeAllPromised
  <1>8. CASE Step
    <2>1. CASE qsort \/ SortPick \/ SortShift \/ SortPlace \/ SortDone
      BY <2>1, SortKind, qsortPromised, SortPickPromised, SortShiftPromised, SortPlacePromised, SortDonePromised
    <2>2. CASE DedupSkip \/ DedupKeep \/ DedupDone
      BY <2>2, SortKind, DedupSkipPromised, DedupKeepPromised, DedupDonePromised
    <2>3. CASE SearchRight \/ SearchLeft \/ SearchEnds \/ Return
      BY <2>3, SortKind, HalvingPromised, SearchEndsPromised, ReturnPromised
    <2>4. CASE MergeLeft \/ MergeRight \/ MergeBoth
      BY <2>4, MergeLeftContent, MergeRightContent, MergeBothContent
    <2>5. CASE RemoveKeep \/ RemoveSkip
      BY <2>5, RemoveKeepContent, RemoveSkipContent
    <2>6. CASE CopyDone
      BY <2>6, EndKind, CopyDonePromised
    <2> QED
      BY <1>8, <2>1, <2>2, <2>3, <2>4, <2>5, <2>6 DEF Step
  <1>9. CASE Next
    BY <1>2, <1>3, <1>4, <1>5, <1>6, <1>7, <1>8, <1>9 DEF Next
  <1> QED
    BY <1>1, <1>9

LEMMA MergedSoFar == Spec => []MergeInv
  <1>1. Init => MergeInv
    BY IdleFacts DEF Init, MergeInv
  <1>2. SetsInv /\ MergeInv /\ [Next]_vars => MergeInv'
    BY StepPromised
  <1> QED
    BY SortedOnceFrozen, <1>1, <1>2, PTL DEF Spec

(* The promise of nn_attrset.h, for every number of sets and entries and    *)
(* through every path of the sort: a freeze leaves of each key the last     *)
(* entry, with its own position and value, a search finds what is there, a  *)
(* union and a removal keep the right entries, and neither a call in        *)
(* progress nor one that is refused changes what any other set stands for.  *)
THEOREM AttrSetsImplementPromise == Spec => ImplementsPromise
  <1>1. Init => Promise!Init
    <2>1. ASSUME Init PROVE Promise!Init
      <3>1. given = {} /\ writes = 0 /\ op.kind = "none"
        BY <2>1, IdleFacts DEF Init
      <3> QED
        BY <3>1 DEF Promise!Init
    <2> QED
      BY <2>1
  <1>2. SetsInv /\ MergeInv /\ [Next]_vars => [Promise!Next]_(<<given, Maps, writes, Answer>>)
    BY StepPromised
  <1> QED
    BY SortedOnceFrozen, MergedSoFar, <1>1, <1>2, PTL DEF Spec, ImplementsPromise, Promise!Spec, Maps, Answer
=============================================================================
