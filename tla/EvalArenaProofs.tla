-------------------------- MODULE EvalArenaProofs --------------------------
(***************************************************************************)
(* Theorems about EvalArena, for any sizes, capacities and widths.  First  *)
(* the symbols: each is found again by its text, whatever the hash         *)
(* function.  Then the memory of environments, and what is read of it; the *)
(* heap of objects and the lists over that memory; the whole layer, from   *)
(* its opening to its end; and the code, which shares nothing with them.   *)
(***************************************************************************)
EXTENDS EvalArena, FiniteSetTheorems, WellFoundedInduction, TLAPS

-----------------------------------------------------------------------------
(* Numbers.                                                                 *)

LEMMA LeastOf ==
  ASSUME NEW T \in SUBSET Nat, T # {}
  PROVE  \E x \in T : \A y \in T : x <= y
  <1> DEFINE less == {pair \in Nat \X Nat : pair[1] < pair[2]}
  <1>1. IsWellFoundedOn(less, Nat)
    BY ONLY NatLessThanWellFounded, Zenon DEF OpToRel
  <1>2. \A x, y \in Nat : y < x => <<y, x>> \in less
    OBVIOUS
  <1> HIDE DEF less
  <1>3. PICK x \in T : \A y \in T : ~ (<<y, x>> \in less)
    BY <1>1, WFMin
  <1>4. ASSUME NEW y \in T PROVE x <= y
    <2>1. ~ (y < x)
      BY <1>2, <1>3
    <2> QED
      BY <2>1
  <1> QED
    BY <1>4

\* A probe of n slots from any hash comes to every slot.
LEMMA ProbeReaches ==
  ASSUME NEW n \in Nat \ {0}, NEW h \in Nat, NEW w \in 0 .. n - 1
  PROVE  \E d \in 0 .. n - 1 : (h + d) % n = w
  <1>1. h % n \in 0 .. n - 1 /\ h \div n \in Nat /\ h = n * (h \div n) + (h % n)
    OBVIOUS
  <1>2. PICK q \in Nat, r \in 0 .. n - 1 : h = n * q + r
    BY <1>1
  <1>3. ASSUME NEW m \in Nat PROVE (n * m + w) % n = w
    OBVIOUS
  <1>4. CASE w >= r
    <2>1. w - r \in 0 .. n - 1 /\ h + (w - r) = n * q + w
      BY <1>2, <1>4
    <2> QED
      BY <1>3, <2>1
  <1>5. CASE w < r
    <2>1. PICK d \in 0 .. n - 1 : d = w + n - r
      BY <1>5
    <2>2. h + d = n * q + (n + w)
      BY <1>2, <2>1
    <2>3. n * q + n = n * (q + 1)
      OBVIOUS
    <2>4. h + d = n * (q + 1) + w
      BY <2>2, <2>3
    <2>5. PICK m \in Nat : m = q + 1
      BY <1>2
    <2>6. (n * m + w) % n = w
      BY <1>3
    <2> QED
      BY <2>1, <2>4, <2>5, <2>6
  <1> QED
    BY <1>4, <1>5

LEMMA ProbeInside ==
  ASSUME NEW n \in Nat \ {0}, NEW h \in Nat, NEW d \in Nat
  PROVE  (h + d) % n \in 0 .. n - 1
  OBVIOUS

-----------------------------------------------------------------------------
(* Blocks.                                                                  *)

Block(b) == SizeOf(b) \in Nat /\ DOMAIN b = 0 .. SizeOf(b) - 1

LEMMA BlockOf ==
  ASSUME NEW n \in Nat, NEW b, DOMAIN b = 0 .. n - 1
  PROVE  Block(b) /\ SizeOf(b) = n
  <1>1. Cardinality(0 .. n - 1) = n
    BY FS_Interval
  <1> QED
    BY <1>1 DEF Block, SizeOf

LEMMA NothingIsBlock == Block(<< >>) /\ SizeOf(<< >>) = 0
  <1>1. DOMAIN << >> = 0 .. 0 - 1
    OBVIOUS
  <1> QED
    BY <1>1, BlockOf

LEMMA ResizedBlock ==
  ASSUME NEW b, Block(b), NEW n \in Nat, n >= SizeOf(b)
  PROVE  /\ Block(Resized(b, n)) /\ SizeOf(Resized(b, n)) = n
         /\ \A w \in 0 .. SizeOf(b) - 1 : Resized(b, n)[w] = b[w]
  <1>1. PICK m, r : m = SizeOf(b) /\ r = Resized(b, n)
    OBVIOUS
  <1>2. DOMAIN r = 0 .. n - 1
    BY <1>1 DEF Resized
  <1>3. Block(r) /\ SizeOf(r) = n
    BY <1>2, BlockOf
  <1>4. DOMAIN b = 0 .. m - 1 /\ m \in Nat
    BY <1>1 DEF Block
  <1>5. \A w \in 0 .. m - 1 : r[w] = b[w]
    BY <1>1, <1>4 DEF Resized
  <1> QED
    BY <1>1, <1>3, <1>5

\* The loop that doubles: it ends above what is wanted.
Doubling(cap, want, n, f) ==
  /\ f \in [0 .. n -> Nat \ {0}]
  /\ f[0] = cap
  /\ \A m \in 1 .. n : f[m] = IF f[m - 1] < want THEN 2 * f[m - 1] ELSE f[m - 1]

LEMMA DoublingExists ==
  ASSUME NEW cap \in Nat \ {0}, NEW want \in Nat, NEW n \in Nat
  PROVE  \E f : Doubling(cap, want, n, f)
  <1> DEFINE T == {m \in Nat : ~ \E f : Doubling(cap, want, m, f)}
  <1>1. SUFFICES ASSUME T # {} PROVE FALSE
    OBVIOUS
  <1>2. PICK m \in T : \A l \in T : m <= l
    BY <1>1, LeastOf
  <1>3. m # 0
    <2>1. PICK f : f = [k \in 0 .. 0 |-> cap]
      OBVIOUS
    <2>2. f \in [0 .. 0 -> Nat \ {0}] /\ f[0] = cap /\ 1 .. 0 = {}
      BY <2>1
    <2>3. Doubling(cap, want, 0, f)
      BY <2>2 DEF Doubling
    <2> QED
      BY <1>2, <2>3
  <1>4. m - 1 \in Nat /\ m - 1 \notin T
    BY <1>2, <1>3
  <1>5. PICK g : Doubling(cap, want, m - 1, g)
    BY <1>4
  <1>6. PICK c : c = IF g[m - 1] < want THEN 2 * g[m - 1] ELSE g[m - 1]
    OBVIOUS
  <1>7. c \in Nat \ {0}
    BY <1>4, <1>5, <1>6 DEF Doubling
  <1>8. PICK f : f = [k \in 0 .. m |-> IF k = m THEN c ELSE g[k]]
    OBVIOUS
  <1>9. /\ f[m] = c /\ \A k \in 0 .. m - 1 : f[k] = g[k] /\ g[k] \in Nat \ {0}
        /\ \A k \in 0 .. m : k = m \/ k \in 0 .. m - 1
    BY <1>4, <1>5, <1>8 DEF Doubling
  <1>10. f \in [0 .. m -> Nat \ {0}] /\ f[0] = cap
    BY <1>3, <1>4, <1>5, <1>7, <1>8, <1>9 DEF Doubling
  <1>11. ASSUME NEW k \in 1 .. m PROVE f[k] = IF f[k - 1] < want THEN 2 * f[k - 1] ELSE f[k - 1]
    <2>1. CASE k = m
      <3>1. f[k - 1] = g[m - 1]
        BY <1>4, <1>9, <2>1
      <3> QED
        BY <1>6, <1>9, <2>1, <3>1
    <2>2. CASE k # m
      <3>1. k \in 1 .. m - 1 /\ k - 1 \in 0 .. m - 1 /\ k \in 0 .. m - 1
        BY <1>4, <2>2
      <3>2. g[k] = IF g[k - 1] < want THEN 2 * g[k - 1] ELSE g[k - 1]
        BY <1>5, <3>1 DEF Doubling
      <3> QED
        BY <1>9, <3>1, <3>2
    <2> QED
      BY <2>1, <2>2
  <1>12. Doubling(cap, want, m, f)
    BY <1>10, <1>11 DEF Doubling
  <1> QED
    BY <1>2, <1>12

LEMMA DoubledEnough ==
  ASSUME NEW cap \in Nat \ {0}, NEW want \in Nat
  PROVE  DoubledTo(cap, want) \in Nat /\ DoubledTo(cap, want) >= want
  <1> DEFINE after == CHOOSE f : f = [n \in 0 .. want |->
                        IF n = 0 THEN cap
                        ELSE LET c == f[n - 1] IN IF c < want THEN 2 * c ELSE c]
  <1>1. PICK g : Doubling(cap, want, want, g)
    BY DoublingExists
  <1>2. g = [n \in 0 .. want |-> IF n = 0 THEN cap
                                 ELSE LET c == g[n - 1] IN IF c < want THEN 2 * c ELSE c]
    <2>1. \A n \in 0 .. want : n = 0 \/ n \in 1 .. want
      OBVIOUS
    <2> QED
      BY <1>1, <2>1 DEF Doubling
  <1>3. after = [n \in 0 .. want |-> IF n = 0 THEN cap
                                     ELSE LET c == after[n - 1] IN IF c < want THEN 2 * c ELSE c]
    BY <1>2
  <1>4. DoubledTo(cap, want) = after[want]
    BY DEF DoubledTo
  <1> HIDE DEF after
  <1> DEFINE T == {n \in 0 .. want : ~ (after[n] \in Nat /\ (after[n] >= want \/ after[n] > n))}
  <1>5. T = {}
    <2>1. SUFFICES ASSUME T # {} PROVE FALSE
      OBVIOUS
    <2>2. PICK m \in T : \A l \in T : m <= l
      <3>1. T \in SUBSET Nat
        OBVIOUS
      <3> QED
        BY <2>1, <3>1, LeastOf
    <2>3. m # 0
      BY <1>3, <2>2
    <2>4. m - 1 \in 0 .. want /\ m - 1 \notin T
      BY <2>2, <2>3
    <2>5. PICK c : c = after[m - 1]
      OBVIOUS
    <2>6. c \in Nat /\ (c >= want \/ c > m - 1)
      BY <2>4, <2>5
    <2>7. after[m] = IF c < want THEN 2 * c ELSE c
      BY <1>3, <2>2, <2>3, <2>5
    <2>8. after[m] \in Nat /\ (after[m] >= want \/ after[m] > m)
      BY <2>2, <2>3, <2>6, <2>7
    <2> QED
      BY <2>2, <2>8
  <1>6. want \in 0 .. want /\ want \notin T
    BY <1>5
  <1>7. after[want] \in Nat /\ (after[want] >= want \/ after[want] > want)
    BY <1>6
  <1> QED
    BY <1>4, <1>7

-----------------------------------------------------------------------------
(* The table of slots.                                                      *)

\* Every slot is empty or has a symbol of ids, and no symbol has two slots.
Table(t, n, ids) ==
  /\ n \in Nat \ {0} /\ DOMAIN t = 0 .. n - 1
  /\ \A w \in 0 .. n - 1 : t[w] = 0 \/ t[w] \in ids
  /\ \A v, w \in 0 .. n - 1 : t[v] = t[w] /\ t[v] # 0 => v = w

\* The probe for a hash comes to a symbol before any empty slot.
Placed(t, n, hash, id) ==
  \E d \in 0 .. n - 1 : /\ t[(hash + d) % n] = id
                        /\ \A c \in 0 .. d - 1 : t[(hash + c) % n] # 0

PutAt(u, t, w, id) == u = [t EXCEPT ![w] = id]

\* Fewer symbols than slots leave one empty.
LEMMA EmptySlot ==
  ASSUME NEW n, NEW t, NEW k \in Nat, k < n, Table(t, n, 1 .. k)
  PROVE  \E w \in 0 .. n - 1 : t[w] = 0
  <1>1. SUFFICES ASSUME \A w \in 0 .. n - 1 : t[w] # 0 PROVE FALSE
    OBVIOUS
  <1>2. n \in Nat \ {0} /\ DOMAIN t = 0 .. n - 1
    BY DEF Table
  <1>3. PICK f : f = [w \in 0 .. n - 1 |-> t[w]]
    OBVIOUS
  <1>4. f \in [0 .. n - 1 -> 1 .. k]
    BY <1>1, <1>3 DEF Table
  <1>5. \A v, w \in 0 .. n - 1 : f[v] = f[w] => v = w
    BY <1>1, <1>3 DEF Table
  <1>6. /\ IsFiniteSet(0 .. n - 1) /\ Cardinality(0 .. n - 1) = n
        /\ IsFiniteSet(1 .. k) /\ Cardinality(1 .. k) = k
    BY <1>2, FS_Interval
  <1>7. Cardinality(1 .. k) < Cardinality(0 .. n - 1)
    BY <1>2, <1>6
  <1>8. \E v, w \in 0 .. n - 1 : v # w /\ f[v] = f[w]
    BY <1>4, <1>6, <1>7, FS_PigeonHole
  <1> QED
    BY <1>5, <1>8

\* A symbol more, in the first empty slot of its probe.
LEMMA TablePut ==
  ASSUME NEW n, NEW t, NEW ids, Table(t, n, ids), NEW id, id # 0, id \notin ids,
         NEW w \in 0 .. n - 1, t[w] = 0, NEW u, PutAt(u, t, w, id)
  PROVE  /\ Table(u, n, ids \cup {id})
         /\ \A hash \in Nat, x \in ids : x # 0 /\ Placed(t, n, hash, x) => Placed(u, n, hash, x)
  <1>1. n \in Nat \ {0} /\ DOMAIN t = 0 .. n - 1
    BY DEF Table
  <1>2. DOMAIN u = 0 .. n - 1 /\ u[w] = id /\ \A v \in 0 .. n - 1 : v # w => u[v] = t[v]
    BY <1>1 DEF PutAt
  <1>3. \A v \in 0 .. n - 1 : u[v] = 0 \/ u[v] \in ids \cup {id}
    BY <1>2 DEF Table
  <1>4. ASSUME NEW v \in 0 .. n - 1, NEW x \in 0 .. n - 1, u[v] = u[x], u[v] # 0 PROVE v = x
    BY <1>2, <1>4 DEF Table
  <1>5. Table(u, n, ids \cup {id})
    BY <1>1, <1>2, <1>3, <1>4 DEF Table
  <1>6. ASSUME NEW hash \in Nat, NEW x \in ids, x # 0, Placed(t, n, hash, x) PROVE Placed(u, n, hash, x)
    <2>1. PICK d \in 0 .. n - 1 : /\ t[(hash + d) % n] = x
                                  /\ \A c \in 0 .. d - 1 : t[(hash + c) % n] # 0
      BY <1>6 DEF Placed
    <2>2. (hash + d) % n \in 0 .. n - 1 /\ \A c \in 0 .. d - 1 : (hash + c) % n \in 0 .. n - 1
      BY <1>1, ProbeInside
    <2>3. u[(hash + d) % n] = x
      BY <1>2, <1>6, <2>1, <2>2
    <2>4. ASSUME NEW c \in 0 .. d - 1 PROVE u[(hash + c) % n] # 0
      BY <1>2, <2>1, <2>2
    <2> QED
      BY <2>3, <2>4 DEF Placed
  <1> QED
    BY <1>5, <1>6

LEMMA PlacedFirst ==
  ASSUME NEW n \in Nat \ {0}, NEW t, DOMAIN t = 0 .. n - 1, NEW hash \in Nat, NEW w \in 0 .. n - 1,
         FirstEmpty(t, hash, w), NEW id, id # 0, NEW u, PutAt(u, t, w, id)
  PROVE  t[w] = 0 /\ Placed(u, n, hash, id)
  <1>1. SizeOf(t) = n
    BY BlockOf
  <1>2. PICK d \in 0 .. n - 1 : /\ w = (hash + d) % n /\ t[w] = 0
                                /\ \A c \in 0 .. d - 1 : t[(hash + c) % n] # 0
    BY <1>1 DEF FirstEmpty, Probed
  <1>3. ASSUME NEW c \in 0 .. d - 1 PROVE (hash + c) % n \in 0 .. n - 1
    <2>1. c \in Nat
      OBVIOUS
    <2> QED
      BY <2>1, ProbeInside
  <1>4. u[w] = id /\ \A v \in 0 .. n - 1 : v # w => u[v] = t[v]
    BY DEF PutAt
  <1>5. \A c \in 0 .. d - 1 : u[(hash + c) % n] # 0
    BY <1>2, <1>3, <1>4
  <1>6. u[(hash + d) % n] = id
    BY <1>2, <1>4
  <1> QED
    BY <1>2, <1>5, <1>6 DEF Placed

-----------------------------------------------------------------------------
(* What the symbol table keeps: entries whose texts lie apart in the part   *)
(* of the arena that is used, and a table with room in which the probe for  *)
(* every text comes to its symbol.                                          *)

SymbolEntry == [offset : Nat, len : Nat, hash : UInt]
TextIn(e, bytes) == [i \in 1 .. e.len |-> bytes[e.offset + i - 1]]

SymbolTyped ==
  /\ entries \in Seq(SymbolEntry) /\ textUsed \in Nat
  /\ Block(slots) /\ Block(text)
  /\ rebuild # None => \E str \in Strings, next \in Nat : \E table :
                         rebuild = [str |-> str, next |-> next, table |-> table]

TextInv ==
  nn_symbol_live =>
    /\ SizeOf(text) > 0 /\ textUsed <= SizeOf(text) /\ textUsed <= ArenaLimit
    /\ \A id \in Symbols :
         /\ entries[id].offset + entries[id].len < textUsed
         /\ nn_symbol_text(id) \in Strings
         /\ entries[id].hash = fnv1a[nn_symbol_text(id)]
    /\ \A i, j \in Symbols : nn_symbol_text(i) = nn_symbol_text(j) => i = j

TableInv ==
  nn_symbol_live =>
    /\ Len(entries) < SizeOf(slots)
    /\ Table(slots, SizeOf(slots), Symbols)
    /\ \A id \in Symbols : Placed(slots, SizeOf(slots), entries[id].hash, id)

\* The slots that a rebuild has been over are in the new table.
Moved == {slots[w] : w \in 0 .. rebuild.next - 1} \ {0}

RebuildInv ==
  rebuild # None =>
    /\ nn_symbol_live
    /\ rebuild.next <= SizeOf(slots)
    /\ textUsed + Len(rebuild.str) < SizeOf(text) /\ textUsed + Len(rebuild.str) < ArenaLimit
    /\ \A id \in Symbols : nn_symbol_text(id) # rebuild.str
    /\ Table(rebuild.table, 2 * SizeOf(slots), Moved)
    /\ \A id \in Moved : Placed(rebuild.table, 2 * SizeOf(slots), entries[id].hash, id)

SymbolInv == SymbolTyped /\ TextInv /\ TableInv /\ RebuildInv

LEMMA SymbolFacts ==
  ASSUME SymbolInv
  PROVE  /\ Len(entries) \in Nat /\ Symbols = 1 .. Len(entries)
         /\ \A id \in Symbols : /\ entries[id] \in SymbolEntry /\ id \in Nat \ {0}
                                /\ nn_symbol_text(id) = TextIn(entries[id], text)
  <1>1. entries \in Seq(SymbolEntry)
    BY DEF SymbolInv, SymbolTyped
  <1>2. \A id \in Symbols : nn_symbol_text(id) = TextIn(entries[id], text)
    BY DEF nn_symbol_text, TextIn
  <1> QED
    BY <1>1, <1>2 DEF Symbols

LEMMA StringFacts ==
  ASSUME NEW str \in Strings
  PROVE  Len(str) \in Nat /\ fnv1a[str] \in UInt /\ fnv1a[str] \in Nat /\ str = [i \in 1 .. Len(str) |-> str[i]]
  <1>1. str \in Seq(Nat) /\ fnv1a[str] \in UInt
    BY SymbolSizes
  <1> QED
    BY <1>1, UIntWidth DEF UInt

\* The probe for a string stops, at an empty slot or at a symbol.
LEMMA ProbeStops ==
  ASSUME SymbolInv, nn_symbol_live, NEW str \in Strings
  PROVE  \E id \in 0 .. Len(entries) : Found(str, id)
  <1>1. PICK n : n = SizeOf(slots)
    OBVIOUS
  <1>2. Len(entries) \in Nat /\ Len(entries) < n /\ Table(slots, n, 1 .. Len(entries)) /\ n \in Nat \ {0}
    BY <1>1, SymbolFacts DEF SymbolInv, TableInv, Table
  <1>3. PICK w \in 0 .. n - 1 : slots[w] = 0
    BY <1>2, EmptySlot
  <1>4. PICK h : h = fnv1a[str] /\ h \in Nat
    BY StringFacts
  <1> DEFINE Stop(c) == LET id == slots[(h + c) % n] IN id # 0 => Holds(id, str)
             T == {c \in 0 .. n - 1 : Stop(c)}
  <1>5. PICK e \in 0 .. n - 1 : (h + e) % n = w
    BY <1>2, <1>4, ProbeReaches
  <1>6. e \in T
    BY <1>3, <1>5
  <1>7. PICK d \in T : \A c \in T : d <= c
    <2>1. T \in SUBSET Nat /\ T # {}
      BY <1>6
    <2> HIDE DEF T
    <2> QED
      BY <2>1, LeastOf
  <1>8. d \in 0 .. n - 1 /\ Stop(d)
    BY <1>7
  <1>9. ASSUME NEW c \in 0 .. d - 1 PROVE ~ Stop(c)
    <2>1. c \in 0 .. n - 1 /\ ~ (d <= c)
      BY <1>2, <1>8
    <2> QED
      BY <1>7, <2>1
  <1>10. StopsAt(str, d)
    BY <1>1, <1>4, <1>8, <1>9 DEF StopsAt, Probed
  <1>11. PICK id : id = slots[(h + d) % n]
    OBVIOUS
  <1>12. id \in 0 .. Len(entries)
    <2>1. d \in Nat
      BY <1>2, <1>8
    <2>2. (h + d) % n \in 0 .. n - 1
      BY <1>2, <1>4, <2>1, ProbeInside
    <2> QED
      BY <1>2, <1>11, <2>2 DEF Table
  <1>13. Found(str, id)
    BY <1>1, <1>4, <1>8, <1>10, <1>11 DEF Found, Probed
  <1> QED
    BY <1>12, <1>13

\* A symbol is what the probe for its text stops at.
LEMMA TextFound ==
  ASSUME SymbolInv, nn_symbol_live, NEW k \in Symbols, NEW str, str = nn_symbol_text(k)
  PROVE  Found(str, k)
  <1>1. PICK n : n = SizeOf(slots)
    OBVIOUS
  <1>2. n \in Nat \ {0} /\ Table(slots, n, Symbols) /\ str \in Strings
    BY <1>1 DEF SymbolInv, TableInv, TextInv, Table
  <1>3. PICK h : h = fnv1a[str] /\ h \in Nat
    BY <1>2, StringFacts
  <1>4. entries[k].hash = h /\ Placed(slots, n, h, k) /\ k # 0
    BY <1>1, <1>3, SymbolFacts DEF SymbolInv, TableInv, TextInv
  <1>5. PICK e \in 0 .. n - 1 : slots[(h + e) % n] = k /\ \A c \in 0 .. e - 1 : slots[(h + c) % n] # 0
    BY <1>4 DEF Placed
  <1> DEFINE Stop(c) == LET id == slots[(h + c) % n] IN id # 0 => Holds(id, str)
  <1>6. Stop(e)
    BY <1>3, <1>4, <1>5 DEF Holds
  <1>7. ASSUME NEW c \in 0 .. e - 1, Stop(c) PROVE slots[(h + c) % n] = k
    <2>1. PICK id : id = slots[(h + c) % n]
      OBVIOUS
    <2>2. (h + c) % n \in 0 .. n - 1
      <3>1. c \in Nat
        BY <1>2
      <3> QED
        BY <1>2, <1>3, <3>1, ProbeInside
    <2>3. id # 0 /\ id \in Symbols
      BY <1>2, <1>5, <2>1, <2>2 DEF Table
    <2>4. nn_symbol_text(id) = str
      BY <1>7, <2>1, <2>3 DEF Holds
    <2>5. id = k
      BY <2>3, <2>4 DEF SymbolInv, TextInv
    <2> QED
      BY <2>1, <2>5
  <1> DEFINE T == {c \in 0 .. e : Stop(c)}
  <1>8. PICK d \in T : \A c \in T : d <= c
    <2>1. T \in SUBSET Nat /\ T # {}
      BY <1>6
    <2> HIDE DEF T
    <2> QED
      BY <2>1, LeastOf
  <1>9. d \in 0 .. e /\ Stop(d) /\ d \in 0 .. n - 1
    BY <1>2, <1>8
  <1>10. slots[(h + d) % n] = k
    <2>1. d = e \/ d \in 0 .. e - 1
      BY <1>9
    <2> QED
      BY <1>5, <1>7, <1>9, <2>1
  <1>11. ASSUME NEW c \in 0 .. d - 1 PROVE ~ Stop(c)
    <2>1. c \in 0 .. e /\ ~ (d <= c)
      BY <1>9
    <2> QED
      BY <1>8, <2>1
  <1>12. StopsAt(str, d)
    BY <1>1, <1>3, <1>9, <1>11 DEF StopsAt, Probed
  <1> QED
    BY <1>1, <1>3, <1>9, <1>10, <1>12 DEF Found, Probed

\* Where the probe ends at an empty slot, no symbol has the string.
LEMMA NotFound ==
  ASSUME SymbolInv, nn_symbol_live, NEW str \in Strings, Found(str, 0), NEW k \in Symbols
  PROVE  nn_symbol_text(k) # str
  <1>1. SUFFICES ASSUME nn_symbol_text(k) = str PROVE FALSE
    OBVIOUS
  <1>2. PICK n : n = SizeOf(slots)
    OBVIOUS
  <1>3. PICK h : h = fnv1a[str] /\ h \in Nat
    BY StringFacts
  <1>4. entries[k].hash = h /\ Placed(slots, n, h, k) /\ k # 0 /\ n \in Nat
    BY <1>1, <1>2, <1>3, SymbolFacts DEF SymbolInv, TableInv, TextInv, Table
  <1>5. PICK e \in 0 .. n - 1 : slots[(h + e) % n] = k /\ \A c \in 0 .. e - 1 : slots[(h + c) % n] # 0
    BY <1>4 DEF Placed
  <1>6. PICK d \in 0 .. n - 1 : StopsAt(str, d) /\ slots[(h + d) % n] = 0
    BY <1>2, <1>3 DEF Found, Probed
  <1>7. \A c \in 0 .. d - 1 : ~ (slots[(h + c) % n] # 0 => Holds(slots[(h + c) % n], str))
    BY <1>2, <1>3, <1>6 DEF StopsAt, Probed
  <1>8. Holds(k, str)
    BY <1>1, <1>3, <1>4 DEF Holds
  <1>9. ~ (e \in 0 .. d - 1)
    BY <1>5, <1>7, <1>8
  <1>10. ~ (d \in 0 .. e - 1) /\ d # e
    BY <1>4, <1>5, <1>6
  <1> QED
    BY <1>4, <1>9, <1>10

LEMMA SymbolsFound ==
  ASSUME SymbolInv
  PROVE  FoundAgain
  <1>1. ASSUME nn_symbol_live, NEW id \in Symbols
        PROVE  nn_symbol_text(id) \in Strings /\ Found(nn_symbol_text(id), id)
    BY <1>1, TextFound DEF SymbolInv, TextInv
  <1> QED
    BY <1>1, ProbeStops DEF FoundAgain

-----------------------------------------------------------------------------
(* Growing the arena, and adding a symbol.                                  *)

Under(e, m) == e.offset + e.len < m
Agree(b, c, m) == \A w \in 0 .. m - 1 : c[w] = b[w]

LEMMA TextKept ==
  ASSUME NEW e \in SymbolEntry, NEW m \in Nat, Under(e, m), NEW b, NEW c, Agree(b, c, m)
  PROVE  TextIn(e, c) = TextIn(e, b)
  <1>1. PICK o, l : o = e.offset /\ l = e.len /\ o \in Nat /\ l \in Nat
    BY DEF SymbolEntry
  <1>2. \A i \in 1 .. l : o + i - 1 \in 0 .. m - 1
    BY <1>1 DEF Under
  <1> QED
    BY <1>1, <1>2 DEF TextIn, Agree

LEMMA ReservedFacts ==
  ASSUME SymbolInv, nn_symbol_live, NEW str \in Strings
  PROVE  /\ Block(Reserved(str)) /\ SizeOf(Reserved(str)) \in Nat /\ SizeOf(Reserved(str)) >= SizeOf(text)
         /\ SizeOf(Reserved(str)) > textUsed + Len(str)
         /\ \A w \in 0 .. SizeOf(text) - 1 : Reserved(str)[w] = text[w]
  <1>1. PICK m, used, l : m = SizeOf(text) /\ used = textUsed /\ l = Len(str)
    OBVIOUS
  <1>2. Block(text) /\ m \in Nat /\ m > 0 /\ used \in Nat /\ l \in Nat /\ used <= m
    BY <1>1, StringFacts DEF SymbolInv, SymbolTyped, TextInv, Block
  <1>3. CASE ArenaFull(str)
    <2>1. used + l + 1 > m
      BY <1>1, <1>3 DEF ArenaFull
    <2>2. PICK size : size = DoubledTo(m, used + l + 1)
      OBVIOUS
    <2>3. size \in Nat /\ size >= used + l + 1
      BY <1>2, <2>2, DoubledEnough
    <2>4. size >= m /\ size > used + l
      BY <1>2, <2>1, <2>3
    <2>5. Reserved(str) = Resized(text, size)
      BY <1>1, <1>3, <2>2 DEF Reserved
    <2> QED
      BY <1>1, <1>2, <2>3, <2>4, <2>5, ResizedBlock
  <1>4. CASE ~ ArenaFull(str)
    <2>1. ~ (used + l + 1 > m)
      BY <1>1, <1>4 DEF ArenaFull
    <2>2. m > used + l /\ m >= m
      BY <1>2, <2>1
    <2> QED
      BY <1>1, <1>2, <1>4, <2>2 DEF Reserved
  <1> QED
    BY <1>3, <1>4

\* A larger arena with the same bytes changes no text and no slot.
LEMMA ArenaGrows ==
  ASSUME SymbolInv, nn_symbol_live, NEW str \in Strings, arena_reserve(str), UNCHANGED <<entries, slots, textUsed>>
  PROVE  /\ nn_symbol_live' /\ Symbols' = Symbols
         /\ \A id \in Symbols : nn_symbol_text(id)' = nn_symbol_text(id)
         /\ Block(text)' /\ TextInv' /\ TableInv'
         /\ textUsed + Len(str) < SizeOf(text)'
  <1>1. /\ Block(text)' /\ SizeOf(text)' \in Nat /\ SizeOf(text)' >= SizeOf(text)
        /\ SizeOf(text)' > textUsed + Len(str)
        /\ \A w \in 0 .. SizeOf(text) - 1 : text'[w] = text[w]
    BY ReservedFacts DEF arena_reserve
  <1>2. nn_symbol_live' /\ Symbols' = Symbols
    BY DEF nn_symbol_live, Symbols
  <1>3. /\ SizeOf(text) \in Nat /\ textUsed \in Nat /\ textUsed <= SizeOf(text) /\ Len(str) \in Nat
        /\ SizeOf(text) > 0
    BY StringFacts DEF SymbolInv, SymbolTyped, TextInv, Block
  <1>4. ASSUME NEW id \in Symbols PROVE nn_symbol_text(id)' = nn_symbol_text(id)
    <2>1. PICK e : e = entries[id]
      OBVIOUS
    <2>2. PICK m : m = SizeOf(text)
      OBVIOUS
    <2>3. e \in SymbolEntry /\ e.offset \in Nat /\ e.len \in Nat /\ e.offset + e.len < textUsed
      BY <2>1, SymbolFacts DEF SymbolInv, TextInv, SymbolEntry
    <2>4. Under(e, m) /\ Agree(text, text', m) /\ m \in Nat
      BY <1>1, <1>3, <2>2, <2>3 DEF Under, Agree
    <2>5. TextIn(e, text') = TextIn(e, text)
      BY <2>3, <2>4, TextKept
    <2> QED
      BY <2>1, <2>5 DEF nn_symbol_text, TextIn
  <1>5. TextInv'
    <2>1. SizeOf(text)' > 0 /\ textUsed' <= SizeOf(text)' /\ textUsed' <= ArenaLimit
      BY <1>1, <1>3 DEF SymbolInv, TextInv
    <2>2. ASSUME NEW id \in Symbols
          PROVE  /\ entries'[id].offset + entries'[id].len < textUsed'
                 /\ nn_symbol_text(id)' \in Strings
                 /\ entries'[id].hash = fnv1a[nn_symbol_text(id)']
      BY <1>4 DEF SymbolInv, TextInv
    <2>3. ASSUME NEW i \in Symbols, NEW j \in Symbols, nn_symbol_text(i)' = nn_symbol_text(j)' PROVE i = j
      BY <1>4, <2>3 DEF SymbolInv, TextInv
    <2> QED
      BY <1>2, <2>1, <2>2, <2>3 DEF TextInv
  <1>6. TableInv'
    BY <1>2 DEF SymbolInv, TableInv, Symbols
  <1> QED
    BY <1>1, <1>2, <1>3, <1>4, <1>5, <1>6

\* What Insert makes of a table in which every symbol is, and which has room.
LEMMA SymbolAdded ==
  ASSUME SymbolInv, nn_symbol_live, NEW str \in Strings, NEW bytes, NEW table, NEW n,
         Insert(str, bytes, table),
         Block(bytes), SizeOf(bytes) >= SizeOf(text), SizeOf(bytes) > textUsed + Len(str),
         \A w \in 0 .. SizeOf(text) - 1 : bytes[w] = text[w],
         textUsed + Len(str) < ArenaLimit,
         \A id \in Symbols : nn_symbol_text(id) # str,
         Table(table, n, Symbols), \A id \in Symbols : Placed(table, n, entries[id].hash, id),
         Len(entries) + 1 < n, rebuild' = None
  PROVE  /\ SymbolInv' /\ nn_symbol_live' /\ Len(entries') = Len(entries) + 1
         /\ \A id \in Symbols : nn_symbol_text(id)' = nn_symbol_text(id)
  <1>1. PICK l, used, m, k : l = Len(str) /\ used = textUsed /\ m = SizeOf(text) /\ k = Len(entries) + 1
    OBVIOUS
  <1>2. /\ l \in Nat /\ used \in Nat /\ m \in Nat /\ used <= m /\ k \in Nat \ {0} /\ entries \in Seq(SymbolEntry)
        /\ Symbols = 1 .. k - 1 /\ used + l < MaxUInt + 1 /\ k < n /\ n \in Nat \ {0} /\ MaxUInt \in Nat
    BY <1>1, StringFacts, SymbolFacts, UIntWidth DEF SymbolInv, SymbolTyped, TextInv, Block, ArenaLimit, Table
  <1>3. PICK z : z = SizeOf(bytes)
    OBVIOUS
  <1>4. z \in Nat /\ z >= m /\ z > used + l /\ DOMAIN bytes = 0 .. z - 1
    BY <1>1, <1>3 DEF Block
  <1>5. Wrapped(used) = used
    <2>1. used \in 0 .. MaxUInt
      BY <1>2
    <2>2. used % (MaxUInt + 1) = used
      BY <1>2, <2>1
    <2> QED
      BY <2>2 DEF Wrapped
  <1>6. PICK e : e = [offset |-> used, len |-> l, hash |-> fnv1a[str]]
    OBVIOUS
  <1>7. e \in SymbolEntry /\ e.offset = used /\ e.len = l /\ e.hash = fnv1a[str] /\ e.hash \in Nat
    BY <1>2, <1>6, StringFacts DEF SymbolEntry
  <1>8. /\ entries' = Append(entries, e) /\ textUsed' = used + l + 1
        /\ text' = [w \in DOMAIN bytes |->
                      IF w \in used .. used + l
                      THEN IF w = used + l THEN NUL ELSE str[w - used + 1] ELSE bytes[w]]
    BY <1>1, <1>5, <1>6 DEF Insert
  <1>9. PICK w \in DOMAIN table : FirstEmpty(table, fnv1a[str], w) /\ slots' = [table EXCEPT ![w] = k]
    BY <1>1 DEF Insert
  <1>10. /\ entries' \in Seq(SymbolEntry) /\ Len(entries') = k /\ entries'[k] = e
         /\ \A id \in 1 .. k - 1 : entries'[id] = entries[id]
         /\ Symbols' = 1 .. k
    BY <1>1, <1>2, <1>7, <1>8 DEF Symbols
  <1>11. /\ DOMAIN text' = 0 .. z - 1
         /\ \A x \in 0 .. used - 1 : text'[x] = text[x]
         /\ \A i \in 1 .. l : text'[used + i - 1] = str[i]
    <2>1. DOMAIN text' = 0 .. z - 1
      BY <1>4, <1>8
    <2>2. ASSUME NEW x \in 0 .. used - 1 PROVE text'[x] = text[x]
      <3>1. x \in 0 .. z - 1 /\ x \in 0 .. m - 1 /\ x \notin used .. used + l
        BY <1>2, <1>4
      <3> QED
        BY <1>1, <1>4, <1>8, <3>1
    <2>3. ASSUME NEW i \in 1 .. l PROVE text'[used + i - 1] = str[i]
      <3>1. PICK x : x = used + i - 1
        OBVIOUS
      <3>2. x \in 0 .. z - 1 /\ x \in used .. used + l /\ x # used + l /\ x - used + 1 = i
        BY <1>2, <1>4, <3>1
      <3> QED
        BY <1>4, <1>8, <3>1, <3>2
    <2> QED
      BY <2>1, <2>2, <2>3
  <1>12. Block(text)' /\ SizeOf(text)' = z
    BY <1>4, <1>11, BlockOf
  <1>13. nn_symbol_text(k)' = str
    <2>1. nn_symbol_text(k)' = [i \in 1 .. l |-> text'[used + i - 1]]
      BY <1>7, <1>10 DEF nn_symbol_text
    <2>2. str = [i \in 1 .. l |-> str[i]]
      BY <1>1, StringFacts
    <2> QED
      BY <1>11, <2>1, <2>2
  <1>14. ASSUME NEW id \in Symbols PROVE nn_symbol_text(id)' = nn_symbol_text(id)
    <2>1. PICK f : f = entries[id]
      OBVIOUS
    <2>2. f \in SymbolEntry /\ Under(f, used) /\ Agree(text, text', used)
      BY <1>1, <1>11, <2>1, SymbolFacts DEF SymbolInv, TextInv, Under, Agree
    <2>3. TextIn(f, text') = TextIn(f, text)
      BY <1>2, <2>2, TextKept
    <2>4. entries'[id] = f
      BY <1>2, <1>10, <2>1
    <2> QED
      BY <2>1, <2>3, <2>4 DEF nn_symbol_text, TextIn
  <1>15. \A id \in Symbols' : id = k \/ id \in Symbols
    BY <1>2, <1>10
  <1>16. SymbolTyped' /\ RebuildInv'
    <2>1. w \in 0 .. n - 1 /\ DOMAIN slots' = 0 .. n - 1
      BY <1>9 DEF Table
    <2>2. Block(slots)'
      BY <1>2, <2>1, BlockOf
    <2>3. textUsed' \in Nat
      BY <1>2, <1>8
    <2> QED
      BY <1>10, <1>12, <2>2, <2>3 DEF SymbolTyped, RebuildInv
  <1>17. TextInv'
    <2>1. SizeOf(text)' > 0 /\ textUsed' <= SizeOf(text)' /\ textUsed' <= ArenaLimit'
      BY <1>2, <1>4, <1>8, <1>12 DEF ArenaLimit
    <2>2. ASSUME NEW id \in Symbols'
          PROVE  /\ entries'[id].offset + entries'[id].len < textUsed'
                 /\ nn_symbol_text(id)' \in Strings
                 /\ entries'[id].hash = fnv1a[nn_symbol_text(id)']
      <3>1. CASE id = k
        BY <1>2, <1>7, <1>8, <1>10, <1>13, <3>1
      <3>2. CASE id \in Symbols
        <4>1. PICK f : f = entries[id]
          OBVIOUS
        <4>2. /\ f.offset \in Nat /\ f.len \in Nat /\ f.offset + f.len < used
              /\ nn_symbol_text(id) \in Strings /\ f.hash = fnv1a[nn_symbol_text(id)]
          BY <1>1, <3>2, <4>1, SymbolFacts DEF SymbolInv, TextInv, SymbolEntry
        <4>3. f.offset + f.len < textUsed' /\ entries'[id] = f
          BY <1>2, <1>8, <1>10, <3>2, <4>1, <4>2
        <4> QED
          BY <1>14, <3>2, <4>2, <4>3
      <3> QED
        BY <1>15, <3>1, <3>2
    <2>3. ASSUME NEW i \in Symbols', NEW j \in Symbols', nn_symbol_text(i)' = nn_symbol_text(j)' PROVE i = j
      <3>1. ASSUME NEW x \in Symbols PROVE nn_symbol_text(x)' # str
        BY <1>14
      <3>2. CASE i \in Symbols /\ j \in Symbols
        BY <1>14, <2>3, <3>2 DEF SymbolInv, TextInv
      <3>3. CASE i = k \/ j = k
        BY <1>13, <1>15, <2>3, <3>1, <3>3
      <3> QED
        BY <1>15, <3>2, <3>3
    <2> QED
      BY <2>1, <2>2, <2>3 DEF TextInv
  <1>18. nn_symbol_live' /\ TableInv'
    <2>1. PICK h : h = fnv1a[str] /\ h \in Nat
      BY StringFacts
    <2>2. DOMAIN table = 0 .. n - 1 /\ w \in 0 .. n - 1 /\ FirstEmpty(table, h, w) /\ k # 0
      BY <1>2, <1>9, <2>1 DEF Table
    <2>3. PICK u : u = slots' /\ PutAt(u, table, w, k)
      BY <1>9 DEF PutAt
    <2>4. table[w] = 0 /\ Placed(u, n, h, k)
      BY <1>2, <2>1, <2>2, <2>3, PlacedFirst
    <2>5. k \notin Symbols
      BY <1>2
    <2>6. /\ Table(u, n, Symbols \cup {k})
          /\ \A hash \in Nat, x \in Symbols : x # 0 /\ Placed(table, n, hash, x) => Placed(u, n, hash, x)
      BY <2>2, <2>3, <2>4, <2>5, TablePut
    <2>7. SizeOf(slots)' = n
      BY <1>2, <2>3, <2>6, BlockOf DEF Table
    <2>8. Symbols' = Symbols \cup {k}
      BY <1>2, <1>10
    <2>9. ASSUME NEW id \in Symbols' PROVE Placed(u, n, entries'[id].hash, id)
      <3>1. CASE id = k
        BY <1>7, <1>10, <2>1, <2>4, <3>1
      <3>2. CASE id \in Symbols
        <4>1. PICK hash : hash = entries[id].hash
          OBVIOUS
        <4>2. hash \in Nat /\ id # 0 /\ Placed(table, n, hash, id)
          BY <3>2, <4>1, SymbolFacts, UIntWidth DEF SymbolEntry, UInt
        <4>3. entries'[id].hash = hash
          BY <1>2, <1>10, <3>2, <4>1
        <4> QED
          BY <2>6, <3>2, <4>2, <4>3
      <3> QED
        BY <1>15, <3>1, <3>2
    <2>10. Len(entries') < n
      BY <1>2, <1>10
    <2>11. TableInv'
      BY <2>3, <2>6, <2>7, <2>8, <2>9, <2>10 DEF TableInv
    <2>12. nn_symbol_live'
      BY <1>2, <2>7 DEF nn_symbol_live
    <2> QED
      BY <2>11, <2>12
  <1> QED
    BY <1>1, <1>10, <1>14, <1>16, <1>17, <1>18 DEF SymbolInv

-----------------------------------------------------------------------------
(* The steps of the symbol table.                                           *)

TextsStay ==
  nn_symbol_live /\ nn_symbol_live' =>
    /\ Len(entries) <= Len(entries')
    /\ \A id \in Symbols : nn_symbol_text(id)' = nn_symbol_text(id)

LEMMA InterningFacts ==
  ASSUME SymbolInv, NEW str \in Strings, Interning(str)
  PROVE  /\ nn_symbol_live /\ rebuild = None /\ textUsed + Len(str) < ArenaLimit
         /\ \A id \in Symbols : nn_symbol_text(id) # str
  <1>1. nn_symbol_live /\ rebuild = None /\ Found(str, 0) /\ Len(str) < ArenaLimit - textUsed
    BY DEF Interning
  <1>2. Len(str) \in Nat /\ textUsed \in Nat /\ ArenaLimit \in Nat
    BY StringFacts, UIntWidth DEF SymbolInv, SymbolTyped, ArenaLimit
  <1> QED
    BY <1>1, <1>2, NotFound

LEMMA RefusedStays ==
  ASSUME SymbolInv, NEW str \in Strings, RefuseEntries(str) \/ RefuseSlots(str)
  PROVE  SymbolInv' /\ TextsStay
  <1>1. Interning(str) /\ arena_reserve(str) /\ UNCHANGED <<entries, slots, textUsed, rebuild>>
    BY DEF RefuseEntries, RefuseSlots
  <1>2. nn_symbol_live /\ rebuild = None
    BY <1>1, InterningFacts
  <1>3. /\ Block(text)' /\ TextInv' /\ TableInv' /\ Symbols' = Symbols
        /\ \A id \in Symbols : nn_symbol_text(id)' = nn_symbol_text(id)
    BY <1>1, <1>2, ArenaGrows
  <1>4. SymbolTyped' /\ RebuildInv'
    BY <1>1, <1>2, <1>3 DEF SymbolInv, SymbolTyped, RebuildInv, Block, SizeOf
  <1> QED
    BY <1>1, <1>3, <1>4, SymbolFacts DEF SymbolInv, TextsStay

LEMMA InternStays ==
  ASSUME SymbolInv, NEW str \in Strings, Intern(str)
  PROVE  SymbolInv' /\ TextsStay
  <1>1. /\ Interning(str) /\ ~ LoadReached /\ rebuild' = rebuild
        /\ Insert(str, Reserved(str), slots)
    BY DEF Intern
  <1>2. /\ nn_symbol_live /\ rebuild = None /\ textUsed + Len(str) < ArenaLimit
        /\ \A id \in Symbols : nn_symbol_text(id) # str
    BY <1>1, InterningFacts
  <1>3. PICK n, k : n = SizeOf(slots) /\ k = Len(entries)
    OBVIOUS
  <1>4. n \in Nat \ {0} /\ k \in Nat /\ Table(slots, n, Symbols) /\ \A id \in Symbols : Placed(slots, n, entries[id].hash, id)
    BY <1>2, <1>3, SymbolFacts DEF SymbolInv, TableInv, Table
  <1>5. k + 1 < n
    <2>1. ~ ((k + 1) * 100 >= n * LoadPercent)
      BY <1>1, <1>3 DEF LoadReached
    <2>2. LoadPercent \in Nat /\ LoadPercent <= 99
      BY SymbolSizes
    <2>3. n * LoadPercent <= n * 99
      BY <1>4, <2>2
    <2> QED
      BY <1>4, <2>1, <2>2, <2>3
  <1>6. PICK bytes : bytes = Reserved(str)
    OBVIOUS
  <1>7. /\ Block(bytes) /\ SizeOf(bytes) >= SizeOf(text) /\ SizeOf(bytes) > textUsed + Len(str)
        /\ \A w \in 0 .. SizeOf(text) - 1 : bytes[w] = text[w]
    BY <1>2, <1>6, ReservedFacts
  <1>8. /\ SymbolInv' /\ Len(entries') = Len(entries) + 1
        /\ \A id \in Symbols : nn_symbol_text(id)' = nn_symbol_text(id)
    BY <1>1, <1>2, <1>3, <1>4, <1>5, <1>6, <1>7, SymbolAdded
  <1> QED
    BY <1>3, <1>4, <1>8 DEF TextsStay

\* The rebuild begins with an empty table.
LEMMA StartRebuildStays ==
  ASSUME SymbolInv, NEW str \in Strings, StartRebuild(str)
  PROVE  SymbolInv' /\ TextsStay
  <1>1. /\ Interning(str) /\ arena_reserve(str) /\ UNCHANGED <<entries, slots, textUsed>>
        /\ rebuild' = [str |-> str, next |-> 0, table |-> NewBlock(2 * SizeOf(slots), 0)]
    BY DEF StartRebuild
  <1>2. /\ nn_symbol_live /\ rebuild = None /\ textUsed + Len(str) < ArenaLimit
        /\ \A id \in Symbols : nn_symbol_text(id) # str
    BY <1>1, InterningFacts
  <1>3. /\ Block(text)' /\ TextInv' /\ TableInv' /\ Symbols' = Symbols /\ nn_symbol_live'
        /\ \A id \in Symbols : nn_symbol_text(id)' = nn_symbol_text(id)
        /\ textUsed + Len(str) < SizeOf(text)'
    BY <1>1, <1>2, ArenaGrows
  <1>4. PICK n, t : n = SizeOf(slots) /\ t = NewBlock(2 * n, 0)
    OBVIOUS
  <1>5. n \in Nat \ {0}
    BY <1>2, <1>4 DEF SymbolInv, TableInv, Table
  <1>6. Table(t, 2 * n, {})
    BY <1>4, <1>5 DEF Table, NewBlock
  <1>7. rebuild'.str = str /\ rebuild'.next = 0 /\ rebuild'.table = t
    BY <1>1, <1>4
  <1>8. Moved' = {}
    <2>1. 0 .. 0 - 1 = {}
      OBVIOUS
    <2> QED
      BY <1>7, <2>1 DEF Moved
  <1>9. RebuildInv'
    <2>1. SizeOf(slots)' = n /\ rebuild'.next <= SizeOf(slots)' /\ textUsed' = textUsed /\ ArenaLimit' = ArenaLimit
      BY <1>1, <1>4, <1>5, <1>7 DEF SizeOf, ArenaLimit
    <2>2. \A id \in Symbols' : nn_symbol_text(id)' # rebuild'.str
      BY <1>2, <1>3, <1>7
    <2>3. Table(rebuild'.table, 2 * SizeOf(slots)', Moved')
      BY <1>6, <1>7, <1>8, <2>1
    <2> QED
      BY <1>2, <1>3, <1>7, <1>8, <2>1, <2>2, <2>3 DEF RebuildInv
  <1>10. SymbolTyped'
    BY <1>1, <1>3 DEF SymbolInv, SymbolTyped, Block, SizeOf
  <1> QED
    BY <1>1, <1>3, <1>9, <1>10, SymbolFacts DEF SymbolInv, TextsStay

LEMMA RebuildFacts ==
  ASSUME SymbolInv, rebuild # None
  PROVE  rebuild.str \in Strings /\ rebuild.next \in Nat
  <1>1. PICK str \in Strings, next \in Nat : \E table : rebuild = [str |-> str, next |-> next, table |-> table]
    BY DEF SymbolInv, SymbolTyped
  <1>2. PICK table : rebuild = [str |-> str, next |-> next, table |-> table]
    BY <1>1
  <1>3. rebuild.str = str /\ rebuild.next = next
    BY <1>2
  <1> QED
    BY <1>1, <1>3

\* The rebuild goes over one slot more.
LEMMA RebuildSlotStays ==
  ASSUME SymbolInv, RebuildSlot
  PROVE  SymbolInv' /\ TextsStay
  <1>1. /\ rebuild # None /\ rebuild.next < SizeOf(slots)
        /\ UNCHANGED <<entries, entriesCap, slots, text, textUsed>>
    BY DEF RebuildSlot
  <1>2. PICK str, next, table, n, id : /\ str = rebuild.str /\ next = rebuild.next /\ table = rebuild.table
                                       /\ n = SizeOf(slots) /\ id = slots[rebuild.next]
    OBVIOUS
  <1>3. /\ nn_symbol_live /\ next \in Nat /\ next < n /\ str \in Strings
        /\ textUsed + Len(str) < SizeOf(text) /\ textUsed + Len(str) < ArenaLimit
        /\ \A x \in Symbols : nn_symbol_text(x) # str
        /\ Table(table, 2 * n, Moved) /\ \A x \in Moved : Placed(table, 2 * n, entries[x].hash, x)
        /\ Table(slots, n, Symbols) /\ n \in Nat \ {0}
    BY <1>1, <1>2, RebuildFacts DEF SymbolInv, RebuildInv, TableInv, Table
  <1>4. 0 .. (next + 1) - 1 = (0 .. next - 1) \cup {next}
    BY <1>3
  <1>5. PICK ids : ids = Moved
    OBVIOUS
  <1>6. ids \subseteq Symbols /\ (id # 0 => id \in Symbols)
    <2>1. ASSUME NEW x \in ids PROVE x \in Symbols
      <3>1. PICK w \in 0 .. next - 1 : x = slots[w] /\ x # 0
        BY <1>2, <1>5 DEF Moved
      <3>2. w \in 0 .. n - 1
        BY <1>3
      <3> QED
        BY <1>3, <3>1, <3>2 DEF Table
    <2>2. next \in 0 .. n - 1
      BY <1>3
    <2> QED
      BY <1>2, <1>3, <2>1, <2>2 DEF Table
  <1>7. ASSUME NEW u, rebuild' = [str |-> str, next |-> next + 1, table |-> u],
               Table(u, 2 * n, (ids \cup {id}) \ {0}),
               \A x \in (ids \cup {id}) \ {0} : Placed(u, 2 * n, entries[x].hash, x)
        PROVE  SymbolInv' /\ TextsStay
    <2>1. rebuild'.str = str /\ rebuild'.next = next + 1 /\ rebuild'.table = u /\ next + 1 \in Nat
      BY <1>3, <1>7
    <2>2. Moved' = (ids \cup {id}) \ {0}
      BY <1>1, <1>2, <1>4, <1>5, <2>1 DEF Moved
    <2>3. /\ nn_symbol_live' /\ Symbols' = Symbols /\ SizeOf(slots)' = n /\ SizeOf(text)' = SizeOf(text)
          /\ ArenaLimit' = ArenaLimit
          /\ \A x \in Symbols : nn_symbol_text(x)' = nn_symbol_text(x)
      BY <1>1, <1>2, <1>3 DEF nn_symbol_live, Symbols, SizeOf, nn_symbol_text, ArenaLimit
    <2>4. next + 1 <= n
      BY <1>3
    <2>5. RebuildInv'
      BY <1>1, <1>3, <1>7, <2>1, <2>2, <2>3, <2>4 DEF RebuildInv
    <2>6. SymbolTyped'
      BY <1>1, <1>3, <1>7, <2>1 DEF SymbolInv, SymbolTyped, Block, SizeOf
    <2>7. TextInv' /\ TableInv'
      BY <1>1, <2>3 DEF SymbolInv, TextInv, TableInv, Symbols, nn_symbol_text, nn_symbol_live, ArenaLimit
    <2> QED
      BY <1>1, <2>3, <2>5, <2>6, <2>7, SymbolFacts DEF SymbolInv, TextsStay
  <1>8. CASE id = 0
    <2>1. rebuild' = [rebuild EXCEPT !.next = next + 1]
      BY <1>2, <1>8 DEF RebuildSlot
    <2>2. rebuild' = [str |-> str, next |-> next + 1, table |-> table]
      BY <1>1, <1>2, <2>1 DEF SymbolInv, SymbolTyped
    <2>3. (ids \cup {id}) \ {0} = ids
      BY <1>5, <1>8 DEF Moved
    <2> QED
      BY <1>3, <1>5, <1>7, <2>2, <2>3
  <1>9. CASE id # 0
    <2>1. PICK hash : hash = entries[id].hash /\ hash \in Nat
      BY <1>6, <1>9, SymbolFacts, UIntWidth DEF SymbolEntry, UInt
    <2>2. PICK w \in DOMAIN table : /\ FirstEmpty(table, hash, w)
                                    /\ rebuild' = [rebuild EXCEPT !.next = next + 1, !.table[w] = id]
      BY <1>2, <1>9, <2>1 DEF RebuildSlot
    <2>3. PICK u : PutAt(u, table, w, id)
      BY DEF PutAt
    <2>4. rebuild' = [str |-> str, next |-> next + 1, table |-> u]
      BY <1>1, <1>2, <2>2, <2>3 DEF SymbolInv, SymbolTyped, PutAt
    <2>5. PICK m : m = 2 * n /\ m \in Nat \ {0}
      BY <1>3
    <2>6. DOMAIN table = 0 .. m - 1 /\ w \in 0 .. m - 1 /\ Table(table, m, ids)
      BY <1>3, <1>5, <2>2, <2>5 DEF Table
    <2>7. table[w] = 0 /\ Placed(u, m, hash, id)
      BY <1>9, <2>1, <2>2, <2>3, <2>5, <2>6, PlacedFirst
    <2>8. id \notin ids
      <3>1. SUFFICES ASSUME id \in ids PROVE FALSE
        OBVIOUS
      <3>2. PICK v \in 0 .. next - 1 : id = slots[v]
        BY <1>2, <1>5, <3>1 DEF Moved
      <3>3. v \in 0 .. n - 1 /\ next \in 0 .. n - 1 /\ v # next
        BY <1>3
      <3> QED
        BY <1>2, <1>3, <1>9, <3>2, <3>3 DEF Table
    <2>9. /\ Table(u, m, ids \cup {id})
          /\ \A h \in Nat, x \in ids : x # 0 /\ Placed(table, m, h, x) => Placed(u, m, h, x)
      BY <1>9, <2>3, <2>6, <2>7, <2>8, TablePut
    <2>10. (ids \cup {id}) \ {0} = ids \cup {id}
      BY <1>5, <1>9 DEF Moved
    <2>11. ASSUME NEW x \in ids PROVE Placed(u, m, entries[x].hash, x)
      <3>1. PICK h : h = entries[x].hash /\ h \in Nat
        BY <1>6, SymbolFacts, UIntWidth DEF SymbolEntry, UInt
      <3>2. x # 0 /\ Placed(table, m, h, x)
        BY <1>3, <1>5, <2>5, <3>1 DEF Moved
      <3> QED
        BY <2>9, <3>1, <3>2
    <2>12. \A x \in ids \cup {id} : Placed(u, m, entries[x].hash, x)
      BY <2>1, <2>7, <2>11
    <2> QED
      BY <1>7, <2>4, <2>5, <2>9, <2>10, <2>12
  <1> QED
    BY <1>8, <1>9

\* Every symbol has come into the new table, and the new one is added.
LEMMA InternRebuiltStays ==
  ASSUME SymbolInv, InternRebuilt
  PROVE  SymbolInv' /\ TextsStay
  <1>1. rebuild # None /\ rebuild.next = SizeOf(slots) /\ Insert(rebuild.str, text, rebuild.table) /\ rebuild' = None
    BY DEF InternRebuilt
  <1>2. PICK str, table, n, k : str = rebuild.str /\ table = rebuild.table /\ n = SizeOf(slots) /\ k = Len(entries)
    OBVIOUS
  <1>3. /\ nn_symbol_live /\ str \in Strings /\ textUsed + Len(str) < SizeOf(text) /\ textUsed + Len(str) < ArenaLimit
        /\ \A x \in Symbols : nn_symbol_text(x) # str
        /\ Table(table, 2 * n, Moved) /\ \A x \in Moved : Placed(table, 2 * n, entries[x].hash, x)
        /\ Table(slots, n, Symbols) /\ n \in Nat \ {0} /\ k < n
    BY <1>1, <1>2, RebuildFacts DEF SymbolInv, RebuildInv, TableInv, Table
  <1>4. k \in Nat /\ k + 1 < 2 * n
    BY <1>2, <1>3, SymbolFacts
  <1>5. Moved = Symbols
    <2>1. ASSUME NEW x \in Moved PROVE x \in Symbols
      BY <1>1, <1>2, <1>3 DEF Moved, Table
    <2>2. ASSUME NEW x \in Symbols PROVE x \in Moved
      <3>1. PICK hash : hash = entries[x].hash /\ hash \in Nat
        BY SymbolFacts, UIntWidth DEF SymbolEntry, UInt
      <3>2. x # 0 /\ Placed(slots, n, hash, x)
        BY <1>2, <1>3, <3>1, SymbolFacts DEF SymbolInv, TableInv
      <3>3. PICK d \in 0 .. n - 1 : slots[(hash + d) % n] = x
        BY <3>2 DEF Placed
      <3>4. d \in Nat
        BY <1>3
      <3>5. (hash + d) % n \in 0 .. n - 1
        BY <1>3, <3>1, <3>4, ProbeInside
      <3> QED
        BY <1>1, <1>2, <3>2, <3>3, <3>5 DEF Moved
    <2> QED
      BY <2>1, <2>2
  <1>6. PICK m : m = 2 * n
    OBVIOUS
  <1>7. Table(table, m, Symbols) /\ (\A x \in Symbols : Placed(table, m, entries[x].hash, x)) /\ Len(entries) + 1 < m
    BY <1>2, <1>3, <1>4, <1>5, <1>6
  <1>8. PICK bytes : bytes = text
    OBVIOUS
  <1>9. Block(bytes) /\ SizeOf(bytes) >= SizeOf(text) /\ SizeOf(bytes) > textUsed + Len(str)
    <2>1. textUsed \in Nat /\ Len(str) \in Nat /\ SizeOf(text) \in Nat /\ Block(text)
      BY <1>3, StringFacts DEF SymbolInv, SymbolTyped, Block
    <2> QED
      BY <1>3, <1>8, <2>1
  <1>10. Insert(str, bytes, table) /\ \A w \in 0 .. SizeOf(text) - 1 : bytes[w] = text[w]
    BY <1>1, <1>2, <1>8
  <1>11. /\ SymbolInv' /\ Len(entries') = Len(entries) + 1
         /\ \A id \in Symbols : nn_symbol_text(id)' = nn_symbol_text(id)
    BY <1>1, <1>3, <1>7, <1>9, <1>10, SymbolAdded
  <1> QED
    BY <1>2, <1>4, <1>11 DEF TextsStay

-----------------------------------------------------------------------------
(* Opening and closing, and the theorems.                                   *)

LEMMA NothingInv == NoSymbols => SymbolInv /\ ~ nn_symbol_live
  <1> SUFFICES ASSUME NoSymbols PROVE SymbolInv /\ ~ nn_symbol_live
    OBVIOUS
  <1>1. entries = << >> /\ textUsed = 0 /\ rebuild = None /\ slots = << >> /\ text = << >>
    BY DEF NoSymbols
  <1>2. Block(slots) /\ Block(text) /\ SizeOf(slots) = 0
    BY <1>1, NothingIsBlock DEF SizeOf
  <1>3. ~ nn_symbol_live
    BY <1>2 DEF nn_symbol_live
  <1>4. SymbolTyped
    BY <1>1, <1>2 DEF SymbolTyped
  <1> QED
    BY <1>1, <1>3, <1>4 DEF SymbolInv, TextInv, TableInv, RebuildInv

\* The table as nn_symbol_init leaves it.
JustOpened ==
  /\ entries = << >> /\ textUsed = 0 /\ rebuild = None
  /\ slots = NewBlock(2 * SymbolCapacity, 0) /\ text = NewBlock(ArenaInitial, Junk)

LEMMA JustOpenedInv == JustOpened => SymbolInv
  <1> SUFFICES ASSUME JustOpened PROVE SymbolInv
    OBVIOUS
  <1>1. PICK n, m : n = 2 * SymbolCapacity /\ m = ArenaInitial
    OBVIOUS
  <1>2. n \in Nat \ {0} /\ m \in Nat \ {0} /\ MaxUInt \in Nat
    BY <1>1, SymbolSizes, UIntWidth
  <1>3. /\ entries = << >> /\ textUsed = 0 /\ rebuild = None
        /\ slots = NewBlock(n, 0) /\ text = NewBlock(m, Junk)
    BY <1>1 DEF JustOpened
  <1>4. DOMAIN slots = 0 .. n - 1 /\ DOMAIN text = 0 .. m - 1
    BY <1>3 DEF NewBlock
  <1>5. Block(slots) /\ SizeOf(slots) = n /\ Block(text) /\ SizeOf(text) = m
    BY <1>2, <1>4, BlockOf
  <1>6. Symbols = {} /\ Len(entries) = 0
    BY <1>3 DEF Symbols
  <1>7. Table(slots, n, Symbols)
    BY <1>2, <1>3 DEF NewBlock, Table
  <1>8. SymbolTyped
    BY <1>3, <1>5 DEF SymbolTyped
  <1>9. TextInv
    BY <1>2, <1>3, <1>5, <1>6 DEF TextInv, ArenaLimit
  <1>10. TableInv
    BY <1>2, <1>5, <1>6, <1>7 DEF TableInv
  <1> QED
    BY <1>3, <1>8, <1>9, <1>10 DEF SymbolInv, RebuildInv

\* Before the layer is opened nobody finds a table.
Unopened == phase = "unopened" => ~ nn_symbol_live
ArenaInv == SymbolInv /\ Unopened

LEMMA InitArena == Init => ArenaInv
  BY NothingInv DEF Init, ArenaInv, Unopened

LEMMA SymbolsUntouched ==
  ASSUME SymbolInv, UNCHANGED symbolVars
  PROVE  SymbolInv' /\ nn_symbol_live' = nn_symbol_live
  <1>1. UNCHANGED <<entries, entriesCap, slots, text, textUsed, rebuild>>
    BY DEF symbolVars
  <1>2. /\ nn_symbol_live' = nn_symbol_live /\ Symbols' = Symbols /\ Moved' = Moved
        /\ SizeOf(slots)' = SizeOf(slots) /\ SizeOf(text)' = SizeOf(text) /\ ArenaLimit' = ArenaLimit
        /\ \A id : nn_symbol_text(id)' = nn_symbol_text(id)
    BY <1>1 DEF nn_symbol_live, Symbols, Moved, SizeOf, nn_symbol_text, ArenaLimit
  <1>3. SymbolTyped'
    BY <1>1 DEF SymbolInv, SymbolTyped, Block, SizeOf
  <1>4. TextInv'
    BY <1>1, <1>2 DEF SymbolInv, TextInv
  <1>5. TableInv'
    BY <1>1, <1>2 DEF SymbolInv, TableInv
  <1>6. RebuildInv'
    BY <1>1, <1>2 DEF SymbolInv, RebuildInv
  <1> QED
    BY <1>2, <1>3, <1>4, <1>5, <1>6 DEF SymbolInv

LEMMA StepArena ==
  ASSUME ArenaInv, [Next]_vars
  PROVE  ArenaInv' /\ (UNCHANGED symbolVars \/ TextsStay)
  <1>1. CASE arenaInit
    <2>1. ~ nn_symbol_live /\ phase' = "open"
      BY <1>1 DEF arenaInit, ArenaInv, Unopened
    <2>2. JustOpened'
      BY <1>1 DEF arenaInit, nn_symbol_init, JustOpened, NewBlock
    <2>3. SymbolInv'
      BY <2>2, JustOpenedInv, PTL
    <2> QED
      BY <2>1, <2>3 DEF ArenaInv, Unopened, TextsStay
  <1>2. CASE arenaDestroy
    <2>1. NoSymbols'
      BY <1>2 DEF arenaDestroy, nn_symbol_destroy, NoSymbols
    <2>2. SymbolInv' /\ ~ nn_symbol_live'
      BY <2>1, NothingInv, PTL
    <2> QED
      BY <2>2 DEF ArenaInv, Unopened, TextsStay
  <1>3. CASE Use("symbols") /\ SymbolNext /\ UNCHANGED <<bytecodeVars, envVars, objectVars>>
    <2>1. SymbolInv' /\ TextsStay
      <3>1. CASE \E str \in Strings : RefuseEntries(str) \/ RefuseSlots(str)
        BY <3>1, RefusedStays DEF ArenaInv
      <3>2. CASE \E str \in Strings : Intern(str)
        BY <3>2, InternStays DEF ArenaInv
      <3>3. CASE \E str \in Strings : StartRebuild(str)
        BY <3>3, StartRebuildStays DEF ArenaInv
      <3>4. CASE RebuildSlot
        BY <3>4, RebuildSlotStays DEF ArenaInv
      <3>5. CASE InternRebuilt
        BY <3>5, InternRebuiltStays DEF ArenaInv
      <3> QED
        BY <1>3, <3>1, <3>2, <3>3, <3>4, <3>5 DEF SymbolNext
    <2>2. phase' = phase /\ nn_symbol_live
      <3>1. ASSUME NEW str \in Strings, Interning(str) PROVE nn_symbol_live
        BY <3>1 DEF Interning
      <3>2. rebuild # None => nn_symbol_live
        BY DEF ArenaInv, SymbolInv, RebuildInv
      <3> QED
        BY <1>3, <3>1, <3>2 DEF Use, SymbolNext, RefuseEntries, RefuseSlots, Intern, StartRebuild,
                                RebuildSlot, InternRebuilt
    <2> QED
      BY <2>1, <2>2 DEF ArenaInv, Unopened
  <1>4. CASE UNCHANGED symbolVars /\ UNCHANGED phase
    <2>1. SymbolInv' /\ nn_symbol_live' = nn_symbol_live
      BY <1>4, SymbolsUntouched DEF ArenaInv
    <2> QED
      BY <1>4, <2>1 DEF ArenaInv, Unopened
  <1> QED
    BY <1>1, <1>2, <1>3, <1>4 DEF Next, Use, vars

LEMMA Arena == Spec => []ArenaInv
  <1>1. ArenaInv /\ [Next]_vars => ArenaInv'
    BY StepArena
  <1> QED
    BY InitArena, <1>1, PTL DEF Spec

\* Whatever the hash function, the capacities and the load limit: the probe for
\* any string ends, and the one for a symbol's text ends at that symbol, after
\* every growth and every refusal of memory (nn_symbol_intern, nn_symbol.c).
THEOREM SymbolsFoundAgain == Spec => []FoundAgain
  <1>1. ArenaInv => FoundAgain
    BY SymbolsFound DEF ArenaInv
  <1> QED
    BY Arena, <1>1, PTL

\* Whatever grows, moves or is refused, a symbol keeps its text as long as the
\* table lives (nn_symbol_text, nn_symbol.c).
THEOREM TextsStayKept == Spec => TextsKept
  <1>1. ArenaInv /\ [Next]_vars =>
          [nn_symbol_live /\ nn_symbol_live' =>
             /\ Len(entries) <= Len(entries')
             /\ \A id \in Symbols : nn_symbol_text(id)' = nn_symbol_text(id)]_symbolVars
    BY StepArena DEF TextsStay
  <1> QED
    BY Arena, <1>1, PTL DEF Spec, TextsKept

-----------------------------------------------------------------------------
(* Sequences as functions on an interval.                                   *)

IsSeq(s) == Len(s) \in Nat /\ s = [i \in 1 .. Len(s) |-> s[i]]

LEMMA SeqIsIn ==
  ASSUME NEW s, IsSeq(s), NEW S, {s[i] : i \in 1 .. Len(s)} \subseteq S
  PROVE  s \in Seq(S)
  <1>1. PICK n : n = Len(s)
    OBVIOUS
  <1>2. n \in Nat /\ s = [i \in 1 .. n |-> s[i]]
    BY <1>1 DEF IsSeq
  <1>3. \A i \in 1 .. n : s[i] \in S
    BY <1>1
  <1>4. s \in [1 .. n -> S]
    BY <1>2, <1>3
  <1> QED
    BY <1>1, <1>2, <1>4

LEMMA InSeq ==
  ASSUME NEW S, NEW s \in Seq(S)
  PROVE  IsSeq(s)
  <1>1. PICK n : n = Len(s)
    OBVIOUS
  <1>2. n \in Nat /\ s \in [1 .. n -> S]
    BY <1>1
  <1>3. s = [i \in 1 .. n |-> s[i]]
    BY <1>2
  <1> QED
    BY <1>1, <1>2, <1>3 DEF IsSeq

LEMMA AppendFacts ==
  ASSUME NEW s, IsSeq(s), NEW e
  PROVE  /\ IsSeq(Append(s, e)) /\ Len(Append(s, e)) = Len(s) + 1
         /\ \A i \in 1 .. Len(s) : Append(s, e)[i] = s[i]
         /\ Append(s, e)[Len(s) + 1] = e
  <1>1. PICK S : s \in Seq(S) /\ e \in S
    <2>1. PICK S : S = {s[i] : i \in 1 .. Len(s)} \cup {e}
      OBVIOUS
    <2>2. s \in Seq(S)
      BY <2>1, SeqIsIn
    <2> QED
      BY <2>1, <2>2
  <1>2. Append(s, e) \in Seq(S) /\ Len(Append(s, e)) = Len(s) + 1
    BY <1>1
  <1>3. /\ \A i \in 1 .. Len(s) : Append(s, e)[i] = s[i]
        /\ Append(s, e)[Len(s) + 1] = e
    BY <1>1
  <1>4. IsSeq(Append(s, e))
    BY <1>2, InSeq
  <1> QED
    BY <1>2, <1>3, <1>4

LEMMA BuiltFacts ==
  ASSUME NEW n \in Nat, NEW s, s = [i \in 1 .. n |-> s[i]]
  PROVE  IsSeq(s) /\ Len(s) = n
  BY DEF IsSeq

LEMMA ExceptFacts ==
  ASSUME NEW s, IsSeq(s), NEW j \in 1 .. Len(s), NEW e, NEW u, PutAt(u, s, j, e)
  PROVE  /\ IsSeq(u) /\ Len(u) = Len(s)
         /\ \A i \in 1 .. Len(s) : u[i] = IF i = j THEN e ELSE s[i]
  <1>1. PICK n : n = Len(s)
    OBVIOUS
  <1>2. n \in Nat /\ s = [i \in 1 .. n |-> s[i]] /\ j \in 1 .. n
    BY <1>1 DEF IsSeq
  <1>3. u = [i \in 1 .. n |-> u[i]] /\ \A i \in 1 .. n : u[i] = IF i = j THEN e ELSE s[i]
    BY <1>1, <1>2 DEF PutAt
  <1>4. IsSeq(u) /\ Len(u) = n
    BY <1>2, <1>3, BuiltFacts
  <1> QED
    BY <1>1, <1>3, <1>4

LEMMA ConcatFacts ==
  ASSUME NEW s, IsSeq(s), NEW t, IsSeq(t)
  PROVE  /\ IsSeq(s \o t) /\ Len(s \o t) = Len(s) + Len(t)
         /\ \A i \in 1 .. Len(s) : (s \o t)[i] = s[i]
         /\ \A i \in 1 .. Len(t) : (s \o t)[Len(s) + i] = t[i]
  <1>1. PICK S : s \in Seq(S) /\ t \in Seq(S)
    <2>1. PICK S : S = {s[i] : i \in 1 .. Len(s)} \cup {t[i] : i \in 1 .. Len(t)}
      OBVIOUS
    <2>2. s \in Seq(S) /\ t \in Seq(S)
      BY <2>1, SeqIsIn
    <2> QED
      BY <2>2
  <1>2. s \o t \in Seq(S) /\ Len(s \o t) = Len(s) + Len(t)
    BY <1>1
  <1>3. /\ \A i \in 1 .. Len(s) : (s \o t)[i] = s[i]
        /\ \A i \in 1 .. Len(t) : (s \o t)[Len(s) + i] = t[i]
    BY <1>1
  <1>4. IsSeq(s \o t)
    BY <1>2, InSeq
  <1> QED
    BY <1>2, <1>3, <1>4

-----------------------------------------------------------------------------
(* Pages, and regions of words in them.                                     *)

PageOK(page) ==
  /\ page = [used |-> page.used, data |-> page.data]
  /\ page.used \in Nat /\ Block(page.data)
  /\ page.used <= SizeOf(page.data) /\ SizeOf(page.data) <= MaxWords
PagesOK(pgs) == IsSeq(pgs) /\ \A p \in 1 .. Len(pgs) : PageOK(pgs[p])

\* ReadWord in any pages.
Fetch(pgs, at, k) ==
  LET page == at.ptr[1]
      w == at.ptr[2] + k
  IN  IF page = 0 THEN None
      ELSE IF page <= Len(pgs) /\ w \in DOMAIN pgs[page].data THEN pgs[page].data[w] ELSE Junk

\* n words from an address on were allocated; so were those that lie there.
Inside(pgs, at, n) ==
  at \in Addresses /\ at.ptr[1] \in 1 .. Len(pgs) /\ at.ptr[2] + n <= pgs[at.ptr[1]].used
Lies(pgs, at, words) ==
  Inside(pgs, at, Len(words)) /\ \A k \in 1 .. Len(words) : Fetch(pgs, at, k - 1) = words[k]

Apart(x, m, y, n) == x.ptr[1] # y.ptr[1] \/ x.ptr[2] + m <= y.ptr[2] \/ y.ptr[2] + n <= x.ptr[2]
Same(pgs, new, at, n) == \A k \in 0 .. n - 1 : Fetch(new, at, k) = Fetch(pgs, at, k)

\* Whatever was allocated stays so, and keeps its words where it is apart from
\* n words at y; after an allocation at y it is apart.
SparesRest(pgs, new, y, n) ==
  \A x, m : m \in Nat /\ Inside(pgs, x, m) =>
              Inside(new, x, m) /\ (Apart(x, m, y, n) => Same(pgs, new, x, m))
IsNew(pgs, y, n) == \A x, m : m \in Nat /\ Inside(pgs, x, m) => Apart(x, m, y, n)

LEMMA AddressFacts ==
  ASSUME NEW p \in Nat, NEW w \in Nat
  PROVE  /\ Address(p, w) \in Addresses /\ Address(p, w) # None
         /\ Address(p, w).ptr[1] = p /\ Address(p, w).ptr[2] = w
  <1>1. Address(p, w) = [ptr |-> <<p, w>>]
    BY DEF Address
  <1>2. Address(p, w) \in Addresses
    BY <1>1 DEF Addresses
  <1> QED
    BY <1>1, <1>2, NullPointsNowhere

LEMMA AddressParts ==
  ASSUME NEW x \in Addresses
  PROVE  x.ptr[1] \in Nat /\ x.ptr[2] \in Nat /\ x = Address(x.ptr[1], x.ptr[2]) /\ x # None
  <1>1. PICK p, w \in Nat : x = [ptr |-> <<p, w>>]
    BY DEF Addresses
  <1> QED
    BY <1>1, NullPointsNowhere DEF Address

\* Page p, of so many words of which so many are used.
PageAt(pgs, p, used, size, cells) ==
  /\ pgs[p] = [used |-> used, data |-> cells]
  /\ pgs[p].used = used /\ pgs[p].data = cells
  /\ used \in Nat /\ size \in Nat
  /\ DOMAIN cells = 0 .. size - 1 /\ SizeOf(cells) = size
  /\ used <= size /\ size <= MaxWords

LEMMA PageFacts ==
  ASSUME NEW pgs, PagesOK(pgs), NEW p \in 1 .. Len(pgs)
  PROVE  \E used, size, cells : PageAt(pgs, p, used, size, cells)
  <1>1. PageOK(pgs[p])
    BY DEF PagesOK
  <1>2. PICK page : page = pgs[p]
    OBVIOUS
  <1>3. PICK used, cells, size : used = page.used /\ cells = page.data /\ size = SizeOf(cells)
    OBVIOUS
  <1>4. /\ page = [used |-> used, data |-> cells] /\ used \in Nat /\ Block(cells)
        /\ used <= size /\ size <= MaxWords
    BY <1>1, <1>2, <1>3 DEF PageOK
  <1>5. size \in Nat /\ DOMAIN cells = 0 .. size - 1
    BY <1>3, <1>4 DEF Block
  <1>6. PageAt(pgs, p, used, size, cells)
    BY <1>2, <1>3, <1>4, <1>5 DEF PageAt
  <1> QED
    BY <1>6

LEMMA PageIs ==
  ASSUME NEW used \in Nat, NEW size \in Nat, NEW cells, DOMAIN cells = 0 .. size - 1,
         used <= size, size <= MaxWords, NEW page, page = [used |-> used, data |-> cells]
  PROVE  PageOK(page) /\ page.used = used /\ page.data = cells
  <1>1. page.used = used /\ page.data = cells
    OBVIOUS
  <1>2. Block(cells) /\ SizeOf(cells) = size
    BY BlockOf
  <1> QED
    BY <1>1, <1>2 DEF PageOK

LEMMA InsideFetch ==
  ASSUME NEW pgs, PagesOK(pgs), NEW x, NEW m \in Nat, Inside(pgs, x, m), NEW k \in 0 .. m - 1
  PROVE  /\ x.ptr[1] \in 1 .. Len(pgs) /\ x.ptr[2] \in Nat
         /\ x.ptr[2] + k \in DOMAIN pgs[x.ptr[1]].data
         /\ Fetch(pgs, x, k) = pgs[x.ptr[1]].data[x.ptr[2] + k]
  <1>1. x \in Addresses /\ x.ptr[1] \in 1 .. Len(pgs) /\ x.ptr[2] + m <= pgs[x.ptr[1]].used
    BY DEF Inside
  <1>2. PICK p, w : p = x.ptr[1] /\ w = x.ptr[2]
    OBVIOUS
  <1>3. p \in 1 .. Len(pgs) /\ w \in Nat /\ w + m <= pgs[p].used
    BY <1>1, <1>2, AddressParts
  <1>4. PICK used, size, cells : PageAt(pgs, p, used, size, cells)
    BY <1>3, PageFacts
  <1>5. Len(pgs) \in Nat
    BY DEF PagesOK, IsSeq
  <1>6. w + k \in DOMAIN pgs[p].data /\ p # 0 /\ p <= Len(pgs)
    BY <1>3, <1>4, <1>5 DEF PageAt
  <1> QED
    BY <1>2, <1>3, <1>6 DEF Fetch

\* Words written over words that were allocated.
LEMMA WriteFacts ==
  ASSUME NEW pgs, PagesOK(pgs), NEW words, IsSeq(words), NEW y, Inside(pgs, y, Len(words)),
         NEW new, new = Written(pgs, y, words)
  PROVE  PagesOK(new) /\ Len(new) = Len(pgs) /\ Lies(new, y, words) /\ SparesRest(pgs, new, y, Len(words))
  <1>1. PICK p, from, n : p = y.ptr[1] /\ from = y.ptr[2] /\ n = Len(words)
    OBVIOUS
  <1>2. /\ p \in 1 .. Len(pgs) /\ from \in Nat /\ from + n <= pgs[p].used /\ n \in Nat /\ Len(pgs) \in Nat
        /\ y \in Addresses /\ IsSeq(pgs)
    BY <1>1, AddressParts DEF Inside, IsSeq, PagesOK
  <1>3. PICK used, size, cells : PageAt(pgs, p, used, size, cells)
    BY <1>2, PageFacts
  <1>4. /\ pgs[p] = [used |-> used, data |-> cells]
        /\ pgs[p].used = used /\ pgs[p].data = cells
        /\ used \in Nat /\ size \in Nat
        /\ DOMAIN cells = 0 .. size - 1
        /\ used <= size /\ size <= MaxWords
    BY <1>3 DEF PageAt
  <1>5. PICK d2 : d2 = [w \in 0 .. size - 1 |-> IF w - from \in 0 .. n - 1 THEN words[w - from + 1] ELSE cells[w]]
    OBVIOUS
  <1>6. new = [pgs EXCEPT ![p] = [used |-> used, data |-> d2]]
    <2>1. new = [pgs EXCEPT ![p] = [pgs[p] EXCEPT !.data =
                   [w \in DOMAIN pgs[p].data |-> IF w - from \in 0 .. n - 1 THEN words[w - from + 1] ELSE pgs[p].data[w]]]]
      BY <1>1 DEF Written
    <2>2. [w \in DOMAIN pgs[p].data |-> IF w - from \in 0 .. n - 1 THEN words[w - from + 1] ELSE pgs[p].data[w]] = d2
      BY <1>4, <1>5
    <2>3. new = [pgs EXCEPT ![p] = [pgs[p] EXCEPT !.data = d2]]
      BY <2>1, <2>2
    <2>4. [pgs[p] EXCEPT !.data = d2] = [used |-> used, data |-> d2]
      BY <1>4
    <2> QED
      BY <2>3, <2>4
  <1>7. PICK page : page = [used |-> used, data |-> d2]
    OBVIOUS
  <1>8. PutAt(new, pgs, p, page) /\ PageOK(page) /\ page.used = used /\ page.data = d2
    <2>1. DOMAIN d2 = 0 .. size - 1
      BY <1>5
    <2> QED
      BY <1>4, <1>6, <1>7, <2>1, PageIs DEF PutAt
  <1>9. /\ IsSeq(new) /\ Len(new) = Len(pgs)
        /\ \A i \in 1 .. Len(pgs) : new[i] = IF i = p THEN page ELSE pgs[i]
    BY <1>2, <1>8, ExceptFacts
  <1>10. PagesOK(new)
    BY <1>8, <1>9 DEF PagesOK
  <1>11. \A i \in 1 .. Len(pgs) : new[i].used = pgs[i].used
    BY <1>4, <1>8, <1>9
  <1>12. ASSUME NEW x, NEW m, m \in Nat, Inside(pgs, x, m)
         PROVE  Inside(new, x, m)
    BY <1>9, <1>11, <1>12 DEF Inside
  <1>13. ASSUME NEW x, NEW m, m \in Nat, Inside(pgs, x, m), Apart(x, m, y, n)
         PROVE  Same(pgs, new, x, m)
    <2>1. ASSUME NEW k \in 0 .. m - 1
          PROVE  Fetch(new, x, k) = Fetch(pgs, x, k)
      <3>1. Inside(new, x, m)
        BY <1>12, <1>13
      <3>2. PICK q, w : q = x.ptr[1] /\ w = x.ptr[2]
        OBVIOUS
      <3>3. /\ q \in 1 .. Len(pgs) /\ w \in Nat /\ w + k \in DOMAIN pgs[q].data
            /\ Fetch(pgs, x, k) = pgs[q].data[w + k]
        BY <1>13, <3>2, InsideFetch
      <3>4. Fetch(new, x, k) = new[q].data[w + k]
        BY <1>10, <1>13, <3>1, <3>2, InsideFetch
      <3>5. CASE q # p
        BY <1>9, <3>3, <3>4, <3>5
      <3>6. CASE q = p
        <4>1. w + m <= from \/ from + n <= w
          BY <1>1, <1>13, <3>2, <3>6 DEF Apart
        <4>2. (w + k) - from \notin 0 .. n - 1
          BY <1>2, <1>13, <3>3, <4>1
        <4>3. w + k \in 0 .. size - 1 /\ new[q].data = d2 /\ pgs[q].data = cells
          BY <1>4, <1>8, <1>9, <3>3, <3>6
        <4> QED
          BY <1>5, <3>3, <3>4, <4>2, <4>3
      <3> QED
        BY <3>5, <3>6
    <2> QED
      BY <2>1 DEF Same
  <1>14. Lies(new, y, words)
    <2>1. Inside(new, y, n)
      BY <1>1, <1>2, <1>12
    <2>2. ASSUME NEW k \in 1 .. n PROVE Fetch(new, y, k - 1) = words[k]
      <3>1. k - 1 \in 0 .. n - 1
        BY <1>2
      <3>2. PICK j : j = k - 1
        OBVIOUS
      <3>3. /\ from + j \in DOMAIN new[p].data
            /\ Fetch(new, y, j) = new[p].data[from + j]
        BY <1>1, <1>2, <1>10, <2>1, <3>1, <3>2, InsideFetch
      <3>4. new[p].data = d2 /\ from + j \in 0 .. size - 1
        BY <1>2, <1>5, <1>8, <1>9, <3>3
      <3>5. (from + j) - from = j /\ j + 1 = k
        BY <1>2, <3>1, <3>2
      <3> QED
        BY <1>5, <3>1, <3>2, <3>3, <3>4, <3>5
    <2> QED
      BY <1>1, <2>1, <2>2 DEF Lies
  <1>15. SparesRest(pgs, new, y, n)
    BY <1>12, <1>13 DEF SparesRest
  <1> QED
    BY <1>1, <1>9, <1>10, <1>14, <1>15

-----------------------------------------------------------------------------
(* Allocation: the words are new, and nothing else changes.                 *)

Grows(pgs, new) ==
  \A x, m : m \in Nat /\ Inside(pgs, x, m) => Inside(new, x, m) /\ Same(pgs, new, x, m)

LEMMA GrowsOn ==
  ASSUME NEW a, NEW b, NEW c, Grows(a, b), Grows(b, c)
  PROVE  Grows(a, c)
  BY DEF Grows, Same

\* The last page is cut: only its count of used words changes.
LEMMA CutFacts ==
  ASSUME NEW pgs, PagesOK(pgs), NEW p \in 1 .. Len(pgs), NEW n \in Nat,
         NEW used, NEW size, NEW cells, PageAt(pgs, p, used, size, cells), used + n <= size,
         NEW cut, PutAt(cut, pgs, p, [used |-> used + n, data |-> cells])
  PROVE  /\ PagesOK(cut) /\ Len(cut) = Len(pgs) /\ Grows(pgs, cut)
         /\ Inside(cut, Address(p, used), n)
  <1>1. PICK page : page = [used |-> used + n, data |-> cells]
    OBVIOUS
  <1>2. /\ used \in Nat /\ size \in Nat /\ DOMAIN cells = 0 .. size - 1 /\ size <= MaxWords
        /\ pgs[p].used = used /\ pgs[p].data = cells
    BY DEF PageAt
  <1>3. used + n \in Nat
    BY <1>2
  <1>4. PageOK(page) /\ page.used = used + n /\ page.data = cells
    BY <1>1, <1>2, <1>3, PageIs
  <1>5. IsSeq(pgs) /\ Len(pgs) \in Nat /\ p \in Nat
    BY DEF PagesOK, IsSeq
  <1>6. /\ IsSeq(cut) /\ Len(cut) = Len(pgs)
        /\ \A i \in 1 .. Len(pgs) : cut[i] = IF i = p THEN page ELSE pgs[i]
    BY <1>1, <1>5, ExceptFacts
  <1>7. PagesOK(cut)
    BY <1>4, <1>6 DEF PagesOK
  <1>8. ASSUME NEW x, NEW m, m \in Nat, Inside(pgs, x, m)
        PROVE  Inside(cut, x, m) /\ Same(pgs, cut, x, m)
    <2>1. PICK q, w : q = x.ptr[1] /\ w = x.ptr[2]
      OBVIOUS
    <2>2. x \in Addresses /\ q \in 1 .. Len(pgs) /\ w \in Nat /\ w + m <= pgs[q].used
      BY <1>8, <2>1, AddressParts DEF Inside
    <2>3. cut[q].data = pgs[q].data
      BY <1>2, <1>4, <1>6, <2>2
    <2>4. w + m <= cut[q].used
      BY <1>2, <1>4, <1>6, <1>8, <2>2
    <2>5. Inside(cut, x, m)
      BY <1>6, <2>1, <2>2, <2>4 DEF Inside
    <2>6. Same(pgs, cut, x, m)
      BY <1>6, <2>1, <2>3 DEF Same, Fetch
    <2> QED
      BY <2>5, <2>6
  <1>9. Inside(cut, Address(p, used), n)
    <2>1. PICK at : at = Address(p, used)
      OBVIOUS
    <2>2. at \in Addresses /\ at.ptr[1] = p /\ at.ptr[2] = used
      BY <1>2, <1>5, <2>1, AddressFacts
    <2>3. cut[p].used = used + n
      BY <1>4, <1>6
    <2>4. Inside(cut, at, n)
      BY <1>3, <1>6, <2>2, <2>3 DEF Inside
    <2> QED
      BY <2>1, <2>4
  <1> QED
    BY <1>6, <1>7, <1>8, <1>9 DEF Grows

LEMMA NoWrap ==
  ASSUME NEW m \in Nat, NEW u \in 0 .. m
  PROVE  u % (m + 1) = u
  OBVIOUS

LEMMA BumpFacts ==
  ASSUME NEW pgs, PagesOK(pgs), NEW n \in Nat, NEW used, NEW size, NEW cells, Len(pgs) > 0,
         PageAt(pgs, Len(pgs), used, size, cells), used + n <= size
  PROVE  /\ PagesOK(Bumped(pgs, n).pages) /\ Grows(pgs, Bumped(pgs, n).pages)
         /\ Len(Bumped(pgs, n).pages) = Len(pgs)
         /\ Bumped(pgs, n).at = Address(Len(pgs), used)
         /\ Lies(Bumped(pgs, n).pages, Address(Len(pgs), used), [i \in 1 .. n |-> None])
         /\ IsNew(pgs, Address(Len(pgs), used), n)
  <1>1. PICK p, at, got, none : p = Len(pgs) /\ at = Address(p, used) /\ got = Bumped(pgs, n) /\ none = [i \in 1 .. n |-> None]
    OBVIOUS
  <1>2. /\ used \in Nat /\ size \in Nat /\ size <= MaxWords /\ MaxWords \in Nat
        /\ pgs[p] = [used |-> used, data |-> cells] /\ pgs[p].used = used
    BY <1>1, PageSizes DEF PageAt
  <1>3. p \in 1 .. Len(pgs) /\ p \in Nat \ {0}
    BY <1>1 DEF PagesOK, IsSeq
  <1>4. PICK cut : cut = [pgs EXCEPT ![p] = [used |-> used + n, data |-> cells]]
    OBVIOUS
  <1>5. PutAt(cut, pgs, p, [used |-> used + n, data |-> cells])
    BY <1>4 DEF PutAt
  <1>6. /\ PagesOK(cut) /\ Len(cut) = Len(pgs) /\ Grows(pgs, cut)
        /\ Inside(cut, at, n)
    BY <1>1, <1>3, <1>5, CutFacts
  <1>7. IsSeq(none) /\ Len(none) = n /\ \A k \in 1 .. n : none[k] = None
    BY <1>1, BuiltFacts
  <1>8. Last(pgs) = pgs[p]
    BY <1>1 DEF Last
  <1>9. (used + n) % (MaxWords + 1) = used + n
    <2>1. used + n \in 0 .. MaxWords
      BY <1>2
    <2>2. PICK u, m : u = used + n /\ m = MaxWords
      OBVIOUS
    <2>3. m \in Nat /\ u \in 0 .. m
      BY <1>2, <2>1, <2>2
    <2>4. u % (m + 1) = u
      BY <2>3, NoWrap
    <2> QED
      BY <2>2, <2>4
  <1>10. [pgs EXCEPT ![p].used = (@ + n) % (MaxWords + 1)] = cut
    <2>1. [pgs[p] EXCEPT !.used = (pgs[p].used + n) % (MaxWords + 1)] = [used |-> used + n, data |-> cells]
      BY <1>2, <1>9
    <2> QED
      BY <1>4, <2>1
  <1>11. got.pages = Written(cut, at, none) /\ got.at = at
    BY <1>1, <1>2, <1>8, <1>10 DEF Bumped
  <1>12. PICK new : new = got.pages
    OBVIOUS
  <1>13. PagesOK(new) /\ Len(new) = Len(cut) /\ Lies(new, at, none) /\ SparesRest(cut, new, at, n)
    BY <1>6, <1>7, <1>11, <1>12, WriteFacts
  <1>14. at \in Addresses /\ at.ptr[1] = p /\ at.ptr[2] = used
    BY <1>1, <1>2, <1>3, AddressFacts
  <1>15. ASSUME NEW x, NEW m, m \in Nat, Inside(pgs, x, m) PROVE Apart(x, m, at, n)
    BY <1>2, <1>14, <1>15 DEF Inside, Apart
  <1>16. Grows(pgs, new)
    <2>1. ASSUME NEW x, NEW m, m \in Nat, Inside(pgs, x, m) PROVE Inside(new, x, m) /\ Same(pgs, new, x, m)
      <3>1. Inside(cut, x, m) /\ Same(pgs, cut, x, m)
        BY <1>6, <2>1 DEF Grows
      <3>2. Inside(new, x, m) /\ Same(cut, new, x, m)
        BY <1>13, <1>15, <2>1, <3>1 DEF SparesRest
      <3> QED
        BY <3>1, <3>2 DEF Same
    <2> QED
      BY <2>1 DEF Grows
  <1> QED
    BY <1>1, <1>6, <1>11, <1>12, <1>13, <1>15, <1>16 DEF IsNew

LEMMA NewPage ==
  ASSUME NEW pgs, PagesOK(pgs), NEW size \in Nat, size <= MaxWords
  PROVE  /\ PagesOK(Append(pgs, alloc_page(size))) /\ Grows(pgs, Append(pgs, alloc_page(size)))
         /\ Len(Append(pgs, alloc_page(size))) = Len(pgs) + 1
         /\ PageAt(Append(pgs, alloc_page(size)), Len(pgs) + 1, 0, size, NewBlock(size, Junk))
  <1>1. PICK new, cells, page, n : new = Append(pgs, page) /\ cells = NewBlock(size, Junk) /\ page = [used |-> 0, data |-> cells]
                               /\ n = Len(pgs)
    OBVIOUS
  <1>2. page = alloc_page(size) /\ DOMAIN cells = 0 .. size - 1
    BY <1>1 DEF alloc_page, NewBlock
  <1>3. PageOK(page) /\ page.used = 0 /\ page.data = cells /\ SizeOf(cells) = size
    <2>1. SizeOf(cells) = size
      BY <1>2, BlockOf
    <2>2. 0 \in Nat /\ 0 <= size
      OBVIOUS
    <2>3. PageOK(page) /\ page.used = 0 /\ page.data = cells
      BY <1>1, <1>2, <2>2, PageIs
    <2> QED
      BY <2>1, <2>3
  <1>4. IsSeq(pgs) /\ n \in Nat
    BY <1>1 DEF PagesOK, IsSeq
  <1>5. IsSeq(new) /\ Len(new) = n + 1 /\ (\A i \in 1 .. n : new[i] = pgs[i]) /\ new[n + 1] = page
    BY <1>1, <1>4, AppendFacts
  <1>6. PagesOK(new)
    <2>1. ASSUME NEW i \in 1 .. n + 1 PROVE PageOK(new[i])
      <3>1. CASE i = n + 1
        BY <1>3, <1>5, <3>1
      <3>2. CASE i # n + 1
        <4>1. i \in 1 .. n
          BY <1>4, <3>2
        <4> QED
          BY <1>1, <1>5, <4>1 DEF PagesOK
      <3> QED
        BY <3>1, <3>2
    <2> QED
      BY <1>5, <2>1 DEF PagesOK
  <1>7. Grows(pgs, new)
    <2>1. ASSUME NEW x, NEW m, m \in Nat, Inside(pgs, x, m) PROVE Inside(new, x, m) /\ Same(pgs, new, x, m)
      <3>1. PICK q : q = x.ptr[1] /\ q \in 1 .. n
        BY <1>1, <2>1 DEF Inside
      <3>2. q \in 1 .. n + 1 /\ new[q] = pgs[q] /\ q <= n /\ q <= n + 1
        BY <1>4, <1>5, <3>1
      <3>3. Inside(new, x, m)
        BY <1>5, <2>1, <3>1, <3>2 DEF Inside
      <3>4. Same(pgs, new, x, m)
        BY <1>1, <1>5, <3>1, <3>2 DEF Same, Fetch
      <3> QED
        BY <3>3, <3>4
    <2> QED
      BY <2>1 DEF Grows
  <1>8. PageAt(new, n + 1, 0, size, cells)
    BY <1>1, <1>2, <1>3, <1>5 DEF PageAt
  <1> QED
    BY <1>1, <1>2, <1>5, <1>6, <1>7, <1>8

\* An allocation of n words at y that was granted.
Granted(pgs, new, y, n) ==
  /\ PagesOK(new) /\ Grows(pgs, new) /\ IsNew(pgs, y, n) /\ y \in Addresses
  /\ Lies(new, y, [i \in 1 .. n |-> None])

LEMMA AllocFacts ==
  ASSUME NEW pgs, PagesOK(pgs), NEW n \in Nat, n <= MaxWords,
         NEW got \in nn_env_alloc_raw(pgs, n), got.at # None
  PROVE  Granted(pgs, got.pages, got.at, n) /\ pgs # << >>
  <1>1. got # Refused(pgs)
    BY DEF Refused
  <1>2. pgs # << >>
    BY <1>1 DEF nn_env_alloc_raw
  <1>3. PICK p : p = Len(pgs) /\ p \in Nat /\ p > 0 /\ IsSeq(pgs)
    <2>1. Len(pgs) \in Nat /\ pgs = [i \in 1 .. Len(pgs) |-> pgs[i]]
      BY DEF PagesOK, IsSeq
    <2>2. Len(pgs) # 0
      <3>1. SUFFICES ASSUME Len(pgs) = 0 PROVE FALSE
        OBVIOUS
      <3>2. pgs = [i \in {} |-> pgs[i]]
        BY <2>1, <3>1
      <3>3. << >> = [i \in {} |-> pgs[i]]
        OBVIOUS
      <3> QED
        BY <1>2, <3>2, <3>3
    <2> QED
      BY <2>1, <2>2 DEF PagesOK
  <1>4. Last(pgs) = pgs[p]
    BY <1>3 DEF Last
  <1>5. PICK used, size, cells : PageAt(pgs, p, used, size, cells)
    BY <1>3, PageFacts
  <1>6. /\ used \in Nat /\ size \in Nat /\ used <= size /\ size <= MaxWords
        /\ pgs[p].used = used /\ pgs[p].data = cells /\ SizeOf(cells) = size
    BY <1>5 DEF PageAt
  <1>7. Overflows(Last(pgs), n) <=> n > size - used
    BY <1>4, <1>6 DEF Overflows
  <1>8. CASE ~ Overflows(Last(pgs), n)
    <2>1. got = Bumped(pgs, n)
      BY <1>2, <1>8 DEF nn_env_alloc_raw
    <2>2. used + n <= size
      BY <1>6, <1>7, <1>8
    <2>3. /\ PagesOK(got.pages) /\ Grows(pgs, got.pages)
          /\ got.at = Address(p, used)
          /\ Lies(got.pages, Address(p, used), [i \in 1 .. n |-> None])
          /\ IsNew(pgs, Address(p, used), n)
      BY <1>3, <1>5, <2>1, <2>2, BumpFacts
    <2>4. Address(p, used) \in Addresses
      BY <1>3, <1>6, AddressFacts
    <2> QED
      BY <1>2, <2>3, <2>4 DEF Granted
  <1>9. CASE Overflows(Last(pgs), n)
    <2>1. PICK s : s = IF n > PageWords THEN n ELSE PageWords
      OBVIOUS
    <2>2. s \in Nat /\ s <= MaxWords /\ n <= s
      BY <2>1, PageSizes
    <2>3. PICK mid, fresh : mid = Append(pgs, alloc_page(s)) /\ fresh = NewBlock(s, Junk)
      OBVIOUS
    <2>4. got = Bumped(mid, n)
      BY <1>1, <1>2, <1>9, <2>1, <2>3 DEF nn_env_alloc_raw
    <2>5. PagesOK(mid) /\ Grows(pgs, mid) /\ Len(mid) = p + 1 /\ PageAt(mid, p + 1, 0, s, fresh)
      BY <1>3, <2>2, <2>3, NewPage
    <2>6. 0 + n <= s /\ Len(mid) > 0
      BY <1>3, <2>2, <2>5
    <2>7. PageAt(mid, Len(mid), 0, s, fresh)
      BY <2>5
    <2>8. /\ PagesOK(got.pages) /\ Grows(mid, got.pages)
          /\ got.at = Address(p + 1, 0)
          /\ Lies(got.pages, Address(p + 1, 0), [i \in 1 .. n |-> None])
          /\ IsNew(mid, Address(p + 1, 0), n)
      BY <2>4, <2>5, <2>6, <2>7, BumpFacts
    <2>9. Grows(pgs, got.pages)
      BY <2>5, <2>8, GrowsOn
    <2>10. IsNew(pgs, Address(p + 1, 0), n)
      BY <2>5, <2>8 DEF IsNew, Grows
    <2>11. Address(p + 1, 0) \in Addresses
      BY <1>3, AddressFacts
    <2> QED
      BY <1>2, <2>8, <2>9, <2>10, <2>11 DEF Granted
  <1> QED
    BY <1>8, <1>9

-----------------------------------------------------------------------------
(* What the callers put into memory, and that it stays there.               *)

\* Words put where an allocation was granted.
Landed(pgs, new, y, words) ==
  PagesOK(new) /\ Grows(pgs, new) /\ IsNew(pgs, y, Len(words)) /\ Lies(new, y, words)

LEMMA LandedNone ==
  ASSUME NEW pgs, NEW new, NEW y, NEW n \in Nat, Granted(pgs, new, y, n),
         NEW none, none = [i \in 1 .. n |-> None]
  PROVE  Landed(pgs, new, y, none) /\ IsSeq(none) /\ Len(none) = n
  <1>1. IsSeq(none) /\ Len(none) = n
    BY BuiltFacts
  <1> QED
    BY <1>1 DEF Landed, Granted

LEMMA LandedWords ==
  ASSUME NEW pgs, NEW mid, NEW y, NEW n \in Nat, Granted(pgs, mid, y, n),
         NEW words, IsSeq(words), Len(words) = n
  PROVE  Landed(pgs, Written(mid, y, words), y, words)
  <1>1. PICK none : none = [i \in 1 .. n |-> None]
    OBVIOUS
  <1>2. Landed(pgs, mid, y, none) /\ Len(none) = n
    BY <1>1, LandedNone
  <1>3. PagesOK(mid) /\ Grows(pgs, mid) /\ IsNew(pgs, y, n) /\ Inside(mid, y, n)
    BY <1>2 DEF Landed, Lies
  <1>4. PICK new : new = Written(mid, y, words)
    OBVIOUS
  <1>5. PagesOK(new) /\ Lies(new, y, words) /\ SparesRest(mid, new, y, n)
    BY <1>3, <1>4, WriteFacts
  <1>6. ASSUME NEW x, NEW m, m \in Nat, Inside(pgs, x, m) PROVE Inside(new, x, m) /\ Same(pgs, new, x, m)
    <2>1. Inside(mid, x, m) /\ Same(pgs, mid, x, m)
      BY <1>3, <1>6 DEF Grows
    <2>2. Apart(x, m, y, n)
      BY <1>3, <1>6 DEF IsNew
    <2>3. Inside(new, x, m) /\ Same(mid, new, x, m)
      BY <1>5, <1>6, <2>1, <2>2 DEF SparesRest
    <2> QED
      BY <2>1, <2>3 DEF Same
  <1>7. Grows(pgs, new)
    BY <1>6 DEF Grows
  <1> QED
    BY <1>3, <1>4, <1>5, <1>7 DEF Landed

ClearOfArrays(arrs, y, n) ==
  \A a \in 1 .. Len(arrs) : Apart(y, n, arrs[a].at, Len(arrs[a].words))

ArrayOK(pgs, array) ==
  /\ array = [at |-> array.at, words |-> array.words]
  /\ IsSeq(array.words) /\ Lies(pgs, array.at, array.words)
Disjoint(x, y) == Apart(x.at, Len(x.words), y.at, Len(y.words))
ArraysOK(pgs, arrs) ==
  /\ IsSeq(arrs)
  /\ \A a \in 1 .. Len(arrs) : ArrayOK(pgs, arrs[a])
  /\ \A a, b \in 1 .. Len(arrs) : a # b => Disjoint(arrs[a], arrs[b])

EnvShape(arrs, v, e) ==
  /\ v = [at |-> v.at, slots |-> v.slots, count |-> v.count, lazy |-> v.lazy,
          parent |-> v.parent, withs |-> v.withs]
  /\ v.at \in Addresses /\ v.parent \in 0 .. e - 1 /\ v.slots \in 0 .. Len(arrs) /\ IsSeq(v.withs)
  /\ v.count = IF v.slots = 0 THEN 0 ELSE Len(arrs[v.slots].words)
EnvPlaced(pgs, arrs, v, e) ==
  IF e = 1 THEN v = TheEmptyEnv
  ELSE Inside(pgs, v.at, StructWords) /\ ClearOfArrays(arrs, v.at, StructWords)
EnvWords(pgs, arrs, es, v) ==
  /\ Fetch(pgs, v.at, 0) = AddressOf(arrs, v.slots)
  /\ Fetch(pgs, v.at, 1) = CountWord(v.count)
  /\ Fetch(pgs, v.at, 2) = v.lazy
  /\ Fetch(pgs, v.at, 3) = AddressOf(es, v.parent)
  /\ Fetch(pgs, v.at, 5) = CountWord(Len(v.withs))
WithsLie(pgs, arrs, at, withs) ==
  Len(withs) > 0 => Lies(pgs, at, withs) /\ ClearOfArrays(arrs, at, Len(withs))
EnvOK(pgs, arrs, es, v, e) ==
  /\ EnvShape(arrs, v, e) /\ EnvPlaced(pgs, arrs, v, e) /\ EnvWords(pgs, arrs, es, v)
  /\ WithsLie(pgs, arrs, Fetch(pgs, v.at, 4), v.withs)

\* What the environments of a step see of the arrays and of each other.
ArraysStay(arrs, new) ==
  /\ IsSeq(arrs) /\ IsSeq(new) /\ Len(arrs) <= Len(new)
  /\ \A a \in 1 .. Len(arrs) : new[a].at = arrs[a].at /\ Len(new[a].words) = Len(arrs[a].words)
EnvsStay(es, new) ==
  /\ IsSeq(es) /\ IsSeq(new) /\ Len(es) <= Len(new)
  /\ \A e \in 1 .. Len(es) : new[e] = es[e]
EnvsSpared(pgs, new, arrs, arrs2) ==
  \A x, m : m \in Nat /\ Inside(pgs, x, m) /\ ClearOfArrays(arrs, x, m) =>
              Inside(new, x, m) /\ Same(pgs, new, x, m) /\ ClearOfArrays(arrs2, x, m)

LEMMA LiesOn ==
  ASSUME NEW pgs, NEW new, NEW y, NEW words, IsSeq(words), Lies(pgs, y, words),
         Inside(new, y, Len(words)), Same(pgs, new, y, Len(words))
  PROVE  Lies(new, y, words)
  <1>1. PICK n : n = Len(words) /\ n \in Nat
    BY DEF IsSeq
  <1>2. ASSUME NEW k \in 1 .. n PROVE Fetch(new, y, k - 1) = words[k]
    <2>1. k - 1 \in 0 .. n - 1
      BY <1>1
    <2> QED
      BY <1>1, <2>1 DEF Lies, Same
  <1> QED
    BY <1>1, <1>2 DEF Lies

LEMMA EmptyFetch ==
  ASSUME NEW pgs, NEW k
  PROVE  Fetch(pgs, EmptyEnv, k) = None
  <1>1. EmptyEnv.ptr[1] = 0
    BY AddressFacts DEF EmptyEnv
  <1> QED
    BY <1>1 DEF Fetch

LEMMA EnvStays ==
  ASSUME NEW pgs, NEW new, NEW arrs, NEW arrs2, NEW es, NEW es2, NEW v, NEW e \in 1 .. Len(es),
         EnvOK(pgs, arrs, es, v, e), EnvsSpared(pgs, new, arrs, arrs2),
         ArraysStay(arrs, arrs2), EnvsStay(es, es2)
  PROVE  EnvOK(new, arrs2, es2, v, e)
  <1>1. EnvShape(arrs, v, e) /\ EnvPlaced(pgs, arrs, v, e) /\ EnvWords(pgs, arrs, es, v)
        /\ WithsLie(pgs, arrs, Fetch(pgs, v.at, 4), v.withs)
    BY DEF EnvOK
  <1>2. PICK m, n : m = Len(arrs) /\ n = Len(arrs2) /\ m \in Nat /\ n \in Nat /\ m <= n
    BY DEF ArraysStay, IsSeq
  <1>3. PICK k, l : k = Len(es) /\ l = Len(es2) /\ k \in Nat /\ l \in Nat /\ k <= l
    BY DEF EnvsStay, IsSeq
  <1>4. v.slots \in 0 .. m /\ v.parent \in 0 .. e - 1 /\ IsSeq(v.withs) /\ e \in 1 .. k
    BY <1>1, <1>2, <1>3 DEF EnvShape
  <1>5. AddressOf(arrs2, v.slots) = AddressOf(arrs, v.slots)
    <2>1. CASE v.slots = 0
      BY <2>1 DEF AddressOf
    <2>2. CASE v.slots # 0
      <3>1. v.slots \in 1 .. Len(arrs)
        BY <1>2, <1>4, <2>2
      <3> QED
        BY <2>2, <3>1 DEF AddressOf, ArraysStay
    <2> QED
      BY <2>1, <2>2
  <1>6. AddressOf(es2, v.parent) = AddressOf(es, v.parent)
    <2>1. CASE v.parent = 0
      BY <2>1 DEF AddressOf
    <2>2. CASE v.parent # 0
      <3>1. v.parent \in 1 .. Len(es)
        BY <1>3, <1>4, <2>2
      <3> QED
        BY <2>2, <3>1 DEF AddressOf, EnvsStay
    <2> QED
      BY <2>1, <2>2
  <1>7. EnvShape(arrs2, v, e)
    <2>1. v.count = IF v.slots = 0 THEN 0 ELSE Len(arrs2[v.slots].words)
      <3>1. CASE v.slots = 0
        BY <1>1, <3>1 DEF EnvShape
      <3>2. CASE v.slots # 0
        <4>1. v.slots \in 1 .. Len(arrs)
          BY <1>2, <1>4, <3>2
        <4> QED
          BY <1>1, <3>2, <4>1 DEF EnvShape, ArraysStay
      <3> QED
        BY <3>1, <3>2
    <2>2. v.slots \in 0 .. n
      BY <1>2, <1>4
    <2> QED
      BY <1>1, <1>2, <2>1, <2>2 DEF EnvShape
  <1>8. EnvPlaced(new, arrs2, v, e) /\ \A i \in 0 .. StructWords - 1 : Fetch(new, v.at, i) = Fetch(pgs, v.at, i)
    <2>1. CASE e = 1
      <3>1. v.at = EmptyEnv
        BY <1>1, <2>1 DEF EnvPlaced, TheEmptyEnv
      <3> QED
        BY <1>1, <2>1, <3>1, EmptyFetch DEF EnvPlaced
    <2>2. CASE e # 1
      <3>1. Inside(pgs, v.at, StructWords) /\ ClearOfArrays(arrs, v.at, StructWords)
        BY <1>1, <2>2 DEF EnvPlaced
      <3>2. StructWords \in Nat
        BY DEF StructWords
      <3>3. Inside(new, v.at, StructWords) /\ Same(pgs, new, v.at, StructWords) /\ ClearOfArrays(arrs2, v.at, StructWords)
        BY <3>1, <3>2 DEF EnvsSpared
      <3> QED
        BY <2>2, <3>3 DEF EnvPlaced, Same
    <2> QED
      BY <2>1, <2>2
  <1>9. \A i \in 0 .. 5 : Fetch(new, v.at, i) = Fetch(pgs, v.at, i)
    BY <1>8 DEF StructWords
  <1>10. EnvWords(new, arrs2, es2, v)
    BY <1>1, <1>5, <1>6, <1>9 DEF EnvWords
  <1>11. WithsLie(new, arrs2, Fetch(new, v.at, 4), v.withs)
    <2>1. PICK w : w = Fetch(pgs, v.at, 4) /\ w = Fetch(new, v.at, 4)
      BY <1>9
    <2>2. SUFFICES ASSUME Len(v.withs) > 0
                   PROVE  Lies(new, w, v.withs) /\ ClearOfArrays(arrs2, w, Len(v.withs))
      BY <2>1 DEF WithsLie
    <2>3. Lies(pgs, w, v.withs) /\ ClearOfArrays(arrs, w, Len(v.withs))
      BY <1>1, <2>1, <2>2 DEF WithsLie
    <2>4. Len(v.withs) \in Nat
      BY <1>4 DEF IsSeq
    <2>5. Inside(new, w, Len(v.withs)) /\ Same(pgs, new, w, Len(v.withs)) /\ ClearOfArrays(arrs2, w, Len(v.withs))
      BY <2>3, <2>4 DEF EnvsSpared, Lies
    <2> QED
      BY <1>4, <2>3, <2>5, LiesOn
  <1> QED
    BY <1>7, <1>8, <1>10, <1>11 DEF EnvOK

EnvsOK(pgs, arrs, es) ==
  /\ IsSeq(es) /\ Len(es) >= 1
  /\ \A e \in 1 .. Len(es) : EnvOK(pgs, arrs, es, es[e], e)
MemoryOK(pgs, arrs, es) ==
  /\ PagesOK(pgs) /\ ArraysOK(pgs, arrs) /\ EnvsOK(pgs, arrs, es)
  /\ Len(arrs) + Len(es) <= MaxMade + 1

LEMMA EnvsOn ==
  ASSUME NEW pgs, NEW new, NEW arrs, NEW arrs2, NEW es, EnvsOK(pgs, arrs, es),
         EnvsSpared(pgs, new, arrs, arrs2), ArraysStay(arrs, arrs2)
  PROVE  EnvsOK(new, arrs2, es)
  <1>1. EnvsStay(es, es)
    BY DEF EnvsStay, EnvsOK, IsSeq
  <1>2. ASSUME NEW e \in 1 .. Len(es) PROVE EnvOK(new, arrs2, es, es[e], e)
    <2>1. EnvOK(pgs, arrs, es, es[e], e)
      BY DEF EnvsOK
    <2> QED
      BY <1>1, <2>1, EnvStays
  <1> QED
    BY <1>2 DEF EnvsOK

LEMMA SameArrays ==
  ASSUME NEW pgs, NEW new, NEW arrs, IsSeq(arrs), Grows(pgs, new)
  PROVE  EnvsSpared(pgs, new, arrs, arrs) /\ ArraysStay(arrs, arrs)
  <1>1. Len(arrs) <= Len(arrs)
    BY DEF IsSeq
  <1> QED
    BY <1>1 DEF EnvsSpared, ArraysStay, Grows

LEMMA ArrayOn ==
  ASSUME NEW pgs, NEW new, NEW array, ArrayOK(pgs, array), Grows(pgs, new)
  PROVE  ArrayOK(new, array)
  <1>1. IsSeq(array.words) /\ Lies(pgs, array.at, array.words)
    BY DEF ArrayOK
  <1>2. Len(array.words) \in Nat /\ Inside(pgs, array.at, Len(array.words))
    BY <1>1 DEF IsSeq, Lies
  <1>3. Inside(new, array.at, Len(array.words)) /\ Same(pgs, new, array.at, Len(array.words))
    BY <1>2 DEF Grows
  <1>4. Lies(new, array.at, array.words)
    BY <1>1, <1>3, LiesOn
  <1> QED
    BY <1>4 DEF ArrayOK

\* Nothing but allocations.
LEMMA MemoryGrows ==
  ASSUME NEW pgs, NEW new, NEW arrs, NEW es, MemoryOK(pgs, arrs, es), PagesOK(new), Grows(pgs, new)
  PROVE  MemoryOK(new, arrs, es)
  <1>1. ArraysOK(new, arrs)
    <2>1. ASSUME NEW a \in 1 .. Len(arrs) PROVE ArrayOK(new, arrs[a])
      <3>1. ArrayOK(pgs, arrs[a])
        BY DEF MemoryOK, ArraysOK
      <3> QED
        BY <3>1, ArrayOn
    <2> QED
      BY <2>1 DEF ArraysOK, MemoryOK
  <1>2. EnvsOK(new, arrs, es)
    <2>1. EnvsSpared(pgs, new, arrs, arrs) /\ ArraysStay(arrs, arrs)
      BY SameArrays DEF MemoryOK, ArraysOK
    <2> QED
      BY <2>1, EnvsOn DEF MemoryOK
  <1> QED
    BY <1>1, <1>2 DEF MemoryOK

\* An array made.
LEMMA ArrayAdded ==
  ASSUME NEW pgs, NEW new, NEW arrs, NEW es, MemoryOK(pgs, arrs, es),
         Len(arrs) + Len(es) <= MaxMade, NEW y, NEW words, IsSeq(words), Landed(pgs, new, y, words)
  PROVE  /\ MemoryOK(new, Append(arrs, [at |-> y, words |-> words]), es)
         /\ ArraysStay(arrs, Append(arrs, [at |-> y, words |-> words]))
         /\ y \in Addresses
  <1>1. PICK array, arrs2, m : /\ array = [at |-> y, words |-> words]
                               /\ arrs2 = Append(arrs, array) /\ m = Len(arrs)
    OBVIOUS
  <1>2. IsSeq(arrs) /\ m \in Nat /\ PagesOK(pgs)
    BY <1>1 DEF MemoryOK, ArraysOK, IsSeq
  <1>3. /\ IsSeq(arrs2) /\ Len(arrs2) = m + 1 /\ (\A i \in 1 .. m : arrs2[i] = arrs[i])
        /\ arrs2[m + 1] = array
    BY <1>1, <1>2, AppendFacts
  <1>4. array.at = y /\ array.words = words
    BY <1>1
  <1>5. PagesOK(new) /\ Grows(pgs, new) /\ IsNew(pgs, y, Len(words)) /\ Lies(new, y, words)
    BY DEF Landed
  <1>6. ArrayOK(new, array)
    BY <1>1, <1>4, <1>5 DEF ArrayOK
  <1>7. \A i \in 1 .. m + 1 : i = m + 1 \/ i \in 1 .. m
    BY <1>2
  <1>8. ASSUME NEW a \in 1 .. m
        PROVE  /\ ArrayOK(new, arrs[a]) /\ Disjoint(arrs[a], array) /\ Disjoint(array, arrs[a])
    <2>1. ArrayOK(pgs, arrs[a])
      BY <1>1 DEF MemoryOK, ArraysOK
    <2>2. PICK x, n : x = arrs[a].at /\ n = Len(arrs[a].words)
      OBVIOUS
    <2>3. n \in Nat /\ Inside(pgs, x, n)
      BY <2>1, <2>2 DEF ArrayOK, Lies, IsSeq
    <2>4. Apart(x, n, y, Len(words))
      BY <1>5, <2>3 DEF IsNew
    <2>5. Apart(y, Len(words), x, n)
      BY <2>4 DEF Apart
    <2>6. ArrayOK(new, arrs[a])
      BY <1>5, <2>1, ArrayOn
    <2> QED
      BY <1>4, <2>2, <2>4, <2>5, <2>6 DEF Disjoint
  <1>9. ArraysOK(new, arrs2)
    <2>1. ASSUME NEW a \in 1 .. m + 1 PROVE ArrayOK(new, arrs2[a])
      BY <1>3, <1>6, <1>7, <1>8
    <2>2. ASSUME NEW a \in 1 .. m + 1, NEW b \in 1 .. m + 1, a # b PROVE Disjoint(arrs2[a], arrs2[b])
      <3>1. CASE a = m + 1
        BY <1>3, <1>7, <1>8, <2>2, <3>1
      <3>2. CASE b = m + 1
        BY <1>3, <1>7, <1>8, <2>2, <3>2
      <3>3. CASE a \in 1 .. m /\ b \in 1 .. m
        <4>1. Disjoint(arrs[a], arrs[b])
          BY <1>1, <2>2, <3>3 DEF MemoryOK, ArraysOK
        <4> QED
          BY <1>3, <3>3, <4>1
      <3> QED
        BY <1>7, <3>1, <3>2, <3>3
    <2> QED
      BY <1>3, <2>1, <2>2 DEF ArraysOK
  <1>10. ArraysStay(arrs, arrs2)
    <2>1. m <= m + 1
      BY <1>2
    <2> QED
      BY <1>1, <1>2, <1>3, <2>1 DEF ArraysStay
  <1>11. EnvsSpared(pgs, new, arrs, arrs2)
    <2>1. ASSUME NEW x, NEW n, n \in Nat, Inside(pgs, x, n), ClearOfArrays(arrs, x, n)
          PROVE  Inside(new, x, n) /\ Same(pgs, new, x, n) /\ ClearOfArrays(arrs2, x, n)
      <3>1. Inside(new, x, n) /\ Same(pgs, new, x, n)
        BY <1>5, <2>1 DEF Grows
      <3>2. Apart(x, n, y, Len(words))
        BY <1>5, <2>1 DEF IsNew
      <3>3. ASSUME NEW a \in 1 .. m + 1 PROVE Apart(x, n, arrs2[a].at, Len(arrs2[a].words))
        <4>1. CASE a = m + 1
          BY <1>3, <1>4, <3>2, <4>1
        <4>2. CASE a \in 1 .. m
          BY <1>1, <1>3, <2>1, <4>2 DEF ClearOfArrays
        <4> QED
          BY <1>7, <4>1, <4>2
      <3> QED
        BY <1>3, <3>1, <3>3 DEF ClearOfArrays
    <2> QED
      BY <2>1 DEF EnvsSpared
  <1>12. EnvsOK(new, arrs2, es)
    BY <1>10, <1>11, EnvsOn DEF MemoryOK
  <1>13. Len(arrs2) + Len(es) <= MaxMade + 1
    <2>1. Len(es) \in Nat
      BY DEF MemoryOK, EnvsOK, IsSeq
    <2> QED
      BY <1>1, <1>2, <1>3, <2>1, PageSizes
  <1>14. y \in Addresses
    BY <1>5 DEF Lies, Inside
  <1> QED
    BY <1>1, <1>5, <1>9, <1>10, <1>12, <1>13, <1>14 DEF MemoryOK

\* An array filled.
LEMMA ArrayFilled ==
  ASSUME NEW pgs, NEW arrs, NEW es, MemoryOK(pgs, arrs, es), NEW a \in 1 .. Len(arrs),
         NEW words, IsSeq(words), Len(words) = Len(arrs[a].words)
  PROVE  /\ MemoryOK(Written(pgs, arrs[a].at, words), [arrs EXCEPT ![a].words = words], es)
         /\ ArraysStay(arrs, [arrs EXCEPT ![a].words = words])
  <1>1. PICK y, n, m, old : y = arrs[a].at /\ n = Len(words) /\ m = Len(arrs) /\ old = arrs[a]
    OBVIOUS
  <1>2. IsSeq(arrs) /\ m \in Nat /\ n \in Nat /\ PagesOK(pgs) /\ ArrayOK(pgs, old) /\ a \in 1 .. m
    BY <1>1 DEF MemoryOK, ArraysOK, IsSeq
  <1>3. Inside(pgs, y, n) /\ old = [at |-> old.at, words |-> old.words]
    BY <1>1, <1>2 DEF ArrayOK, Lies
  <1>4. PICK new, arrs2, array : /\ new = Written(pgs, y, words) /\ array = [at |-> y, words |-> words]
                                 /\ arrs2 = [arrs EXCEPT ![a] = array]
    OBVIOUS
  <1>5. [arrs EXCEPT ![a].words = words] = arrs2
    <2>1. [old EXCEPT !.words = words] = array
      BY <1>1, <1>3, <1>4
    <2> QED
      BY <1>1, <1>4, <2>1
  <1>6. PutAt(arrs2, arrs, a, array) /\ array.at = y /\ array.words = words
    BY <1>4 DEF PutAt
  <1>7. /\ IsSeq(arrs2) /\ Len(arrs2) = m
        /\ \A i \in 1 .. m : arrs2[i] = IF i = a THEN array ELSE arrs[i]
    BY <1>1, <1>2, <1>6, ExceptFacts
  <1>8. PagesOK(new) /\ Lies(new, y, words) /\ SparesRest(pgs, new, y, n)
    BY <1>1, <1>2, <1>3, <1>4, WriteFacts
  <1>9. \A i \in 1 .. m : arrs2[i].at = arrs[i].at /\ Len(arrs2[i].words) = Len(arrs[i].words)
    BY <1>1, <1>6, <1>7
  <1>10. ArraysStay(arrs, arrs2)
    <2>1. m <= m
      BY <1>2
    <2> QED
      BY <1>1, <1>2, <1>7, <1>9, <2>1 DEF ArraysStay
  <1>11. EnvsSpared(pgs, new, arrs, arrs2)
    <2>1. ASSUME NEW x, NEW k, k \in Nat, Inside(pgs, x, k), ClearOfArrays(arrs, x, k)
          PROVE  Inside(new, x, k) /\ Same(pgs, new, x, k) /\ ClearOfArrays(arrs2, x, k)
      <3>1. Apart(x, k, y, n)
        BY <1>1, <1>2, <2>1 DEF ClearOfArrays
      <3>2. Inside(new, x, k) /\ Same(pgs, new, x, k)
        BY <1>8, <2>1, <3>1 DEF SparesRest
      <3>3. ClearOfArrays(arrs2, x, k)
        BY <1>1, <1>7, <1>9, <2>1 DEF ClearOfArrays
      <3> QED
        BY <3>2, <3>3
    <2> QED
      BY <2>1 DEF EnvsSpared
  <1>12. EnvsOK(new, arrs2, es)
    BY <1>10, <1>11, EnvsOn DEF MemoryOK
  <1>13. ASSUME NEW b \in 1 .. m PROVE ArrayOK(new, arrs2[b])
    <2>1. CASE b = a
      <3>1. ArrayOK(new, array)
        BY <1>4, <1>6, <1>8 DEF ArrayOK
      <3> QED
        BY <1>7, <2>1, <3>1
    <2>2. CASE b # a
      <3>1. PICK x, other : other = arrs[b] /\ x = arrs[b].at
        OBVIOUS
      <3>2. ArrayOK(pgs, other) /\ Disjoint(other, old)
        BY <1>1, <2>2, <3>1 DEF MemoryOK, ArraysOK
      <3>3. IsSeq(other.words) /\ Lies(pgs, x, other.words) /\ Apart(x, Len(other.words), y, n)
        BY <1>1, <3>1, <3>2 DEF ArrayOK, Disjoint
      <3>4. Len(other.words) \in Nat /\ Inside(pgs, x, Len(other.words))
        BY <3>3 DEF Lies, IsSeq
      <3>5. Inside(new, x, Len(other.words)) /\ Same(pgs, new, x, Len(other.words))
        BY <1>8, <3>3, <3>4 DEF SparesRest
      <3>6. Lies(new, x, other.words)
        BY <3>3, <3>5, LiesOn
      <3>7. ArrayOK(new, other)
        BY <3>1, <3>2, <3>6 DEF ArrayOK
      <3> QED
        BY <1>7, <2>2, <3>1, <3>7
    <2> QED
      BY <2>1, <2>2
  <1>14. ArraysOK(new, arrs2)
    <2>1. ASSUME NEW b \in 1 .. m, NEW c \in 1 .. m, b # c PROVE Disjoint(arrs2[b], arrs2[c])
      <3>1. Disjoint(arrs[b], arrs[c])
        BY <1>1, <2>1 DEF MemoryOK, ArraysOK
      <3> QED
        BY <1>9, <3>1 DEF Disjoint
    <2> QED
      BY <1>7, <1>13, <2>1 DEF ArraysOK
  <1>15. Len(arrs2) + Len(es) <= MaxMade + 1
    BY <1>1, <1>7 DEF MemoryOK
  <1> QED
    BY <1>1, <1>4, <1>5, <1>8, <1>10, <1>12, <1>14, <1>15 DEF MemoryOK

\* An environment made of a view of it, or refused.
MadeEnv(pgs, new, es, es2, words, view) ==
  \E got \in nn_env_alloc_raw(pgs, StructWords) :
    IF got.at = None THEN new = pgs /\ es2 = es
    ELSE /\ new = Written(got.pages, got.at, words)
         /\ es2 = Append(es, [view EXCEPT !.at = got.at])

ViewOK(arrs, es, v) ==
  /\ v = [at |-> v.at, slots |-> v.slots, count |-> v.count, lazy |-> v.lazy,
          parent |-> v.parent, withs |-> v.withs]
  /\ v.parent \in 0 .. Len(es) /\ v.slots \in 0 .. Len(arrs) /\ IsSeq(v.withs)
  /\ v.count = IF v.slots = 0 THEN 0 ELSE Len(arrs[v.slots].words)

StructOf(arrs, es, v, w) ==
  Struct(AddressOf(arrs, v.slots), v.count, v.lazy, AddressOf(es, v.parent), w, Len(v.withs))

LEMMA SixWords ==
  ASSUME NEW a, NEW b, NEW c, NEW d, NEW e, NEW f
  PROVE  IsSeq(<<a, b, c, d, e, f>>) /\ Len(<<a, b, c, d, e, f>>) = 6
  <1>1. PICK S : S = {a, b, c, d, e, f}
    OBVIOUS
  <1>2. <<a, b, c, d, e, f>> \in Seq(S)
    BY <1>1
  <1> QED
    BY <1>2, InSeq

LEMMA EnvAdded ==
  ASSUME NEW pgs, NEW new, NEW arrs, NEW es, MemoryOK(pgs, arrs, es),
         Len(arrs) + Len(es) <= MaxMade, NEW v, ViewOK(arrs, es, v),
         NEW w, WithsLie(pgs, arrs, w, v.withs),
         NEW y, Landed(pgs, new, y, StructOf(arrs, es, v, w))
  PROVE  MemoryOK(new, arrs, Append(es, [v EXCEPT !.at = y]))
  <1>1. PICK env, es2, k, words : /\ env = [v EXCEPT !.at = y] /\ es2 = Append(es, env) /\ k = Len(es)
                                  /\ words = StructOf(arrs, es, v, w)
    OBVIOUS
  <1>2. /\ IsSeq(es) /\ k \in Nat /\ k >= 1 /\ PagesOK(pgs) /\ IsSeq(arrs)
        /\ EnvsOK(pgs, arrs, es)
    BY <1>1 DEF MemoryOK, EnvsOK, ArraysOK, IsSeq
  <1>3. /\ IsSeq(es2) /\ Len(es2) = k + 1 /\ (\A i \in 1 .. k : es2[i] = es[i]) /\ es2[k + 1] = env
    BY <1>1, <1>2, AppendFacts
  <1>4. /\ env = [at |-> y, slots |-> v.slots, count |-> v.count, lazy |-> v.lazy,
                  parent |-> v.parent, withs |-> v.withs]
        /\ v.parent \in 0 .. k /\ v.slots \in 0 .. Len(arrs) /\ IsSeq(v.withs)
        /\ v.count = IF v.slots = 0 THEN 0 ELSE Len(arrs[v.slots].words)
    BY <1>1 DEF ViewOK
  <1>5. /\ env.at = y /\ env.slots = v.slots /\ env.count = v.count /\ env.lazy = v.lazy
        /\ env.parent = v.parent /\ env.withs = v.withs
    BY <1>4
  <1>6. words = <<AddressOf(arrs, v.slots), CountWord(v.count), v.lazy, AddressOf(es, v.parent),
                  w, CountWord(Len(v.withs))>>
    BY <1>1 DEF StructOf, Struct
  <1>7. IsSeq(words) /\ Len(words) = 6
    BY <1>6, SixWords
  <1>8. PagesOK(new) /\ Grows(pgs, new) /\ IsNew(pgs, y, 6) /\ Lies(new, y, words)
    BY <1>1, <1>7 DEF Landed
  <1>9. Inside(new, y, StructWords) /\ y \in Addresses
    BY <1>7, <1>8 DEF Lies, Inside, StructWords
  <1>10. EnvsSpared(pgs, new, arrs, arrs) /\ ArraysStay(arrs, arrs)
    BY <1>2, <1>8, SameArrays
  <1>11. EnvsStay(es, es2)
    <2>1. k <= k + 1
      BY <1>2
    <2> QED
      BY <1>1, <1>2, <1>3, <2>1 DEF EnvsStay
  <1>12. ASSUME NEW e \in 1 .. k PROVE EnvOK(new, arrs, es2, es[e], e)
    <2>1. EnvOK(pgs, arrs, es, es[e], e) /\ e \in 1 .. Len(es)
      BY <1>1 DEF MemoryOK, EnvsOK
    <2> QED
      BY <1>10, <1>11, <2>1, EnvStays
  <1>13. EnvShape(arrs, env, k + 1)
    <2>1. env.parent \in 0 .. (k + 1) - 1
      BY <1>2, <1>4, <1>5
    <2> QED
      BY <1>4, <1>5, <1>9, <2>1 DEF EnvShape
  <1>14. EnvPlaced(new, arrs, env, k + 1)
    <2>1. ASSUME NEW a \in 1 .. Len(arrs) PROVE Apart(y, StructWords, arrs[a].at, Len(arrs[a].words))
      <3>1. PICK x, n : x = arrs[a].at /\ n = Len(arrs[a].words)
        OBVIOUS
      <3>2. ArrayOK(pgs, arrs[a])
        BY DEF MemoryOK, ArraysOK
      <3>3. n \in Nat /\ Inside(pgs, x, n)
        BY <3>1, <3>2 DEF ArrayOK, Lies, IsSeq
      <3>4. Apart(x, n, y, 6)
        BY <1>8, <3>3 DEF IsNew
      <3> QED
        BY <3>1, <3>4 DEF Apart, StructWords
    <2>2. ClearOfArrays(arrs, y, StructWords)
      BY <2>1 DEF ClearOfArrays
    <2>3. k + 1 # 1
      BY <1>2
    <2> QED
      BY <1>5, <1>9, <2>2, <2>3 DEF EnvPlaced
  <1>15. AddressOf(es2, v.parent) = AddressOf(es, v.parent)
    <2>1. CASE v.parent = 0
      BY <2>1 DEF AddressOf
    <2>2. CASE v.parent # 0
      <3>1. v.parent \in 1 .. k
        BY <1>2, <1>4, <2>2
      <3> QED
        BY <1>3, <2>2, <3>1 DEF AddressOf
    <2> QED
      BY <2>1, <2>2
  <1>16. /\ Fetch(new, y, 0) = words[1] /\ Fetch(new, y, 1) = words[2] /\ Fetch(new, y, 2) = words[3]
         /\ Fetch(new, y, 3) = words[4] /\ Fetch(new, y, 4) = words[5] /\ Fetch(new, y, 5) = words[6]
    <2>1. \A i \in 1 .. 6 : Fetch(new, y, i - 1) = words[i]
      BY <1>7, <1>8 DEF Lies
    <2>2. 1 - 1 = 0 /\ 2 - 1 = 1 /\ 3 - 1 = 2 /\ 4 - 1 = 3 /\ 5 - 1 = 4 /\ 6 - 1 = 5
      OBVIOUS
    <2> QED
      BY <2>1, <2>2
  <1>17. EnvWords(new, arrs, es2, env)
    BY <1>5, <1>6, <1>15, <1>16 DEF EnvWords
  <1>18. WithsLie(new, arrs, Fetch(new, env.at, 4), env.withs)
    <2>1. Fetch(new, env.at, 4) = w
      BY <1>5, <1>6, <1>16
    <2>2. SUFFICES ASSUME Len(v.withs) > 0
                   PROVE  Lies(new, w, v.withs) /\ ClearOfArrays(arrs, w, Len(v.withs))
      BY <1>5, <2>1 DEF WithsLie
    <2>3. Lies(pgs, w, v.withs) /\ ClearOfArrays(arrs, w, Len(v.withs))
      BY <2>2 DEF WithsLie
    <2>4. Len(v.withs) \in Nat
      BY <1>4 DEF IsSeq
    <2>5. Inside(new, w, Len(v.withs)) /\ Same(pgs, new, w, Len(v.withs))
      BY <1>8, <2>3, <2>4 DEF Grows, Lies
    <2> QED
      BY <1>4, <2>3, <2>5, LiesOn
  <1>19. EnvOK(new, arrs, es2, env, k + 1)
    BY <1>13, <1>14, <1>17, <1>18 DEF EnvOK
  <1>20. EnvsOK(new, arrs, es2)
    <2>1. \A e \in 1 .. k + 1 : e = k + 1 \/ e \in 1 .. k
      BY <1>2
    <2>2. ASSUME NEW e \in 1 .. k + 1 PROVE EnvOK(new, arrs, es2, es2[e], e)
      BY <1>3, <1>12, <1>19, <2>1
    <2>3. k + 1 >= 1
      BY <1>2
    <2> QED
      BY <1>3, <2>2, <2>3 DEF EnvsOK
  <1>21. MemoryOK(new, arrs, es)
    BY <1>8, MemoryGrows
  <1>22. Len(arrs) + Len(es2) <= MaxMade + 1
    <2>1. Len(arrs) \in Nat
      BY <1>2 DEF IsSeq
    <2> QED
      BY <1>1, <1>2, <1>3, <2>1, PageSizes
  <1> QED
    BY <1>1, <1>20, <1>21, <1>22 DEF MemoryOK

LEMMA NewEnvStays ==
  ASSUME NEW pgs, NEW new, NEW arrs, NEW es, NEW es2, MemoryOK(pgs, arrs, es),
         Len(arrs) + Len(es) <= MaxMade, NEW v, ViewOK(arrs, es, v),
         NEW w, WithsLie(pgs, arrs, w, v.withs),
         MadeEnv(pgs, new, es, es2, StructOf(arrs, es, v, w), v)
  PROVE  MemoryOK(new, arrs, es2) /\ Len(es) <= Len(es2)
  <1>1. PICK got \in nn_env_alloc_raw(pgs, StructWords) :
          IF got.at = None THEN new = pgs /\ es2 = es
          ELSE /\ new = Written(got.pages, got.at, StructOf(arrs, es, v, w))
               /\ es2 = Append(es, [v EXCEPT !.at = got.at])
    BY DEF MadeEnv
  <1>2. IsSeq(es) /\ Len(es) \in Nat
    BY DEF MemoryOK, EnvsOK, IsSeq
  <1>3. CASE got.at = None
    BY <1>1, <1>2, <1>3
  <1>4. CASE got.at # None
    <2>1. PagesOK(pgs) /\ StructWords \in Nat /\ StructWords <= MaxWords
      BY PageSizes DEF MemoryOK, StructWords
    <2>2. PICK mid, y, words, n : /\ mid = got.pages /\ y = got.at /\ words = StructOf(arrs, es, v, w)
                                  /\ n = StructWords
      OBVIOUS
    <2>3. Granted(pgs, mid, y, n)
      BY <1>4, <2>1, <2>2, AllocFacts
    <2>4. IsSeq(words) /\ Len(words) = n /\ n \in Nat
      BY <2>2, SixWords DEF StructOf, Struct, StructWords
    <2>5. new = Written(mid, y, words) /\ es2 = Append(es, [v EXCEPT !.at = y])
      BY <1>1, <1>4, <2>2
    <2>6. Landed(pgs, new, y, words)
      BY <2>3, <2>4, <2>5, LandedWords
    <2>7. MemoryOK(new, arrs, es2)
      BY <2>2, <2>5, <2>6, EnvAdded
    <2>8. PICK env : env = [v EXCEPT !.at = y]
      OBVIOUS
    <2>9. Len(es2) = Len(es) + 1
      BY <1>2, <2>5, <2>8, AppendFacts
    <2> QED
      BY <1>2, <2>7, <2>9
  <1> QED
    BY <1>3, <1>4

-----------------------------------------------------------------------------
(* Reading it back.                                                         *)

Memory == MemoryOK(pages, arrays, envs)

LEMMA CountBack ==
  ASSUME NEW n \in Nat
  PROVE  CountOf(CountWord(n)) = n
  <1>1. CASE n = 0
    BY <1>1 DEF CountOf, CountWord
  <1>2. CASE n # 0
    <2>1. PICK word : word = [count |-> n]
      OBVIOUS
    <2>2. word \in [count : Nat]
      BY <2>1
    <2>3. word # None /\ word.count = n
      BY <2>1, <2>2, NullPointsNowhere
    <2> QED
      BY <1>2, <2>1, <2>3 DEF CountOf, CountWord
  <1> QED
    BY <1>1, <1>2

\* What lies somewhere is what is read there.
LEMMA WordsLie ==
  ASSUME NEW y, NEW words, IsSeq(words), Len(words) > 0 => Lies(pages, y, words)
  PROVE  WordsAt(y, Len(words)) = words
  <1>1. PICK n : n = Len(words) /\ n \in Nat /\ words = [k \in 1 .. n |-> words[k]]
    BY DEF IsSeq
  <1>2. ASSUME NEW k \in 1 .. n PROVE ReadWord(y, k - 1) = words[k]
    <2>1. Lies(pages, y, words)
      BY <1>1
    <2>2. Fetch(pages, y, k - 1) = words[k]
      BY <1>1, <2>1 DEF Lies
    <2> QED
      BY <2>2 DEF Fetch, ReadWord
  <1> QED
    BY <1>1, <1>2 DEF WordsAt

LEMMA ArrayReads ==
  ASSUME Memory, NEW a \in 1 .. Len(arrays)
  PROVE  /\ Lies(pages, arrays[a].at, arrays[a].words) /\ IsSeq(arrays[a].words)
         /\ Len(arrays[a].words) \in Nat
         /\ arrays[a].at \in Addresses
         /\ \A k \in 0 .. Len(arrays[a].words) - 1 : ReadWord(arrays[a].at, k) = arrays[a].words[k + 1]
  <1>1. ArrayOK(pages, arrays[a])
    BY DEF Memory, MemoryOK, ArraysOK
  <1>2. PICK y, words, n : y = arrays[a].at /\ words = arrays[a].words /\ n = Len(words)
    OBVIOUS
  <1>3. IsSeq(words) /\ Lies(pages, y, words) /\ n \in Nat /\ y \in Addresses
    BY <1>1, <1>2 DEF ArrayOK, IsSeq, Lies, Inside
  <1>4. ASSUME NEW k \in 0 .. n - 1 PROVE ReadWord(y, k) = words[k + 1]
    <2>1. PICK i : i = k + 1
      OBVIOUS
    <2>2. i \in 1 .. n /\ i - 1 = k
      BY <1>3, <2>1
    <2>3. Fetch(pages, y, i - 1) = words[i]
      BY <1>2, <1>3, <2>2 DEF Lies
    <2> QED
      BY <2>1, <2>2, <2>3 DEF Fetch, ReadWord
  <1> QED
    BY <1>2, <1>3, <1>4

LEMMA EnvReads ==
  ASSUME Memory, NEW e \in 1 .. Len(envs), NEW v, v = envs[e]
  PROVE  /\ v = [at |-> v.at, slots |-> v.slots, count |-> v.count, lazy |-> v.lazy,
                 parent |-> v.parent, withs |-> v.withs]
         /\ v.at \in Addresses /\ v.at # None
         /\ v.parent \in 0 .. e - 1 /\ v.slots \in 0 .. Len(arrays)
         /\ IsSeq(v.withs) /\ Len(v.withs) \in Nat
         /\ v.count = IF v.slots = 0 THEN 0 ELSE Len(arrays[v.slots].words)
         /\ v.count \in Nat
         /\ nn_env_slots(v.at) = AddressOf(arrays, v.slots) /\ nn_env_slot_count(v.at) = v.count
         /\ nn_env_lazy_scope(v.at) = v.lazy /\ nn_env_parent(v.at) = AddressOf(envs, v.parent)
         /\ nn_env_with_count(v.at) = Len(v.withs) /\ ReadWord(v.at, 5) = CountWord(Len(v.withs))
         /\ WithsLie(pages, arrays, nn_env_with_scopes(v.at), v.withs)
         /\ WordsAt(nn_env_with_scopes(v.at), Len(v.withs)) = v.withs
  <1>1. EnvOK(pages, arrays, envs, v, e)
    BY DEF Memory, MemoryOK, EnvsOK
  <1>2. EnvShape(arrays, v, e) /\ EnvWords(pages, arrays, envs, v)
        /\ WithsLie(pages, arrays, Fetch(pages, v.at, 4), v.withs)
    BY <1>1 DEF EnvOK
  <1>3. /\ v = [at |-> v.at, slots |-> v.slots, count |-> v.count, lazy |-> v.lazy,
                parent |-> v.parent, withs |-> v.withs]
        /\ v.at \in Addresses /\ v.parent \in 0 .. e - 1 /\ v.slots \in 0 .. Len(arrays)
        /\ IsSeq(v.withs)
        /\ v.count = IF v.slots = 0 THEN 0 ELSE Len(arrays[v.slots].words)
    BY <1>2 DEF EnvShape
  <1>4. v.at # None
    BY <1>3, AddressParts
  <1>5. v.count \in Nat
    <2>1. CASE v.slots = 0
      BY <1>3, <2>1
    <2>2. CASE v.slots # 0
      <3>1. Len(arrays) \in Nat
        BY DEF Memory, MemoryOK, ArraysOK, IsSeq
      <3>2. v.slots \in 1 .. Len(arrays)
        BY <1>3, <2>2, <3>1
      <3> QED
        BY <1>3, <2>2, <3>2, ArrayReads
    <2> QED
      BY <2>1, <2>2
  <1>6. Len(v.withs) \in Nat
    BY <1>3 DEF IsSeq
  <1>7. \A k \in 0 .. 5 : Fetch(pages, v.at, k) = ReadWord(v.at, k)
    BY DEF Fetch, ReadWord
  <1>8. /\ nn_env_slots(v.at) = AddressOf(arrays, v.slots) /\ nn_env_lazy_scope(v.at) = v.lazy
        /\ nn_env_parent(v.at) = AddressOf(envs, v.parent)
        /\ ReadWord(v.at, 5) = CountWord(Len(v.withs)) /\ ReadWord(v.at, 1) = CountWord(v.count)
        /\ nn_env_with_scopes(v.at) = Fetch(pages, v.at, 4)
    BY <1>2, <1>7 DEF EnvWords, nn_env_slots, nn_env_lazy_scope, nn_env_parent, nn_env_with_scopes
  <1>9. nn_env_slot_count(v.at) = v.count
    <2>1. PICK n : n = v.count
      OBVIOUS
    <2> QED
      BY <1>5, <1>8, <2>1, CountBack DEF nn_env_slot_count
  <1>10. nn_env_with_count(v.at) = Len(v.withs)
    <2>1. PICK n : n = Len(v.withs)
      OBVIOUS
    <2> QED
      BY <1>6, <1>8, <2>1, CountBack DEF nn_env_with_count
  <1>11. WithsLie(pages, arrays, nn_env_with_scopes(v.at), v.withs)
    BY <1>2, <1>8
  <1>12. WordsAt(nn_env_with_scopes(v.at), Len(v.withs)) = v.withs
    <2>1. PICK y, words : y = nn_env_with_scopes(v.at) /\ words = v.withs
      OBVIOUS
    <2>2. IsSeq(words) /\ (Len(words) > 0 => Lies(pages, y, words))
      BY <1>3, <1>11, <2>1 DEF WithsLie
    <2>3. WordsAt(y, Len(words)) = words
      BY <2>2, WordsLie
    <2> QED
      BY <2>1, <2>3
  <1> QED
    BY <1>3, <1>4, <1>5, <1>6, <1>8, <1>9, <1>10, <1>11, <1>12

\* Numbers of environments up the chain of parents.
Chain(e, n, h) ==
  /\ h \in [0 .. n -> 0 .. Len(envs)]
  /\ h[0] = e
  /\ \A l \in 1 .. n : h[l] = IF h[l - 1] = 0 THEN 0 ELSE envs[h[l - 1]].parent

LEMMA ParentFacts ==
  ASSUME Memory, NEW e \in 1 .. Len(envs)
  PROVE  /\ envs[e].parent \in 0 .. e - 1 /\ envs[e].parent \in 0 .. Len(envs) /\ Len(envs) \in Nat
         /\ e = 1 => envs[e].parent = 0
  <1>1. PICK v : v = envs[e]
    OBVIOUS
  <1>2. v.parent \in 0 .. e - 1
    BY <1>1, EnvReads
  <1>3. Len(envs) \in Nat
    BY DEF Memory, MemoryOK, EnvsOK, IsSeq
  <1> QED
    BY <1>1, <1>2, <1>3

LEMMA ChainExists ==
  ASSUME Memory, NEW e \in 1 .. Len(envs), NEW n \in Nat
  PROVE  \E h : Chain(e, n, h)
  <1> DEFINE T == {m \in Nat : ~ \E h : Chain(e, m, h)}
  <1>1. SUFFICES ASSUME T # {} PROVE FALSE
    OBVIOUS
  <1>2. PICK m \in T : \A l \in T : m <= l
    BY <1>1, LeastOf
  <1>3. Len(envs) \in Nat /\ e \in 0 .. Len(envs)
    BY ParentFacts
  <1>4. m # 0
    <2>1. PICK h : h = [k \in 0 .. 0 |-> e]
      OBVIOUS
    <2>2. h \in [0 .. 0 -> 0 .. Len(envs)] /\ h[0] = e /\ 1 .. 0 = {}
      BY <1>3, <2>1
    <2>3. Chain(e, 0, h)
      BY <2>2 DEF Chain
    <2> QED
      BY <1>2, <2>3
  <1>5. m - 1 \in Nat /\ m - 1 \notin T /\ m \in Nat
    BY <1>2, <1>4
  <1>6. PICK g : Chain(e, m - 1, g)
    BY <1>5
  <1>7. PICK last : last = g[m - 1] /\ last \in 0 .. Len(envs)
    BY <1>5, <1>6 DEF Chain
  <1>8. PICK c : c = IF last = 0 THEN 0 ELSE envs[last].parent
    OBVIOUS
  <1>9. c \in 0 .. Len(envs)
    <2>1. CASE last = 0
      BY <1>3, <1>8, <2>1
    <2>2. CASE last # 0
      <3>1. last \in 1 .. Len(envs)
        BY <1>3, <1>7, <2>2
      <3> QED
        BY <1>8, <2>2, <3>1, ParentFacts
    <2> QED
      BY <2>1, <2>2
  <1>10. PICK h : h = [k \in 0 .. m |-> IF k = m THEN c ELSE g[k]]
    OBVIOUS
  <1>11. /\ h[m] = c /\ \A k \in 0 .. m - 1 : h[k] = g[k] /\ g[k] \in 0 .. Len(envs)
         /\ \A k \in 0 .. m : k = m \/ k \in 0 .. m - 1
    BY <1>5, <1>6, <1>10 DEF Chain
  <1>12. h \in [0 .. m -> 0 .. Len(envs)] /\ h[0] = e
    <2>1. 0 \in 0 .. m - 1
      BY <1>4, <1>5
    <2>2. \A k \in 0 .. m : h[k] \in 0 .. Len(envs)
      BY <1>9, <1>11
    <2> QED
      BY <1>6, <1>10, <1>11, <2>1, <2>2 DEF Chain
  <1>13. ASSUME NEW l \in 1 .. m PROVE h[l] = IF h[l - 1] = 0 THEN 0 ELSE envs[h[l - 1]].parent
    <2>1. l - 1 \in 0 .. m - 1 /\ h[l - 1] = g[l - 1]
      BY <1>5, <1>11
    <2>2. CASE l = m
      BY <1>7, <1>8, <1>11, <2>1, <2>2
    <2>3. CASE l # m
      <3>1. l \in 1 .. m - 1 /\ l \in 0 .. m - 1
        BY <1>5, <2>3
      <3> QED
        BY <1>6, <1>11, <2>1, <3>1 DEF Chain
    <2> QED
      BY <2>2, <2>3
  <1>14. Chain(e, m, h)
    BY <1>12, <1>13 DEF Chain
  <1> QED
    BY <1>2, <1>14

LEMMA AddressOfFacts ==
  ASSUME Memory, NEW i \in 0 .. Len(envs)
  PROVE  /\ AddressOf(envs, i) = None <=> i = 0
         /\ i # 0 => AddressOf(envs, i) = envs[i].at /\ i \in 1 .. Len(envs)
  <1>1. Len(envs) \in Nat
    BY DEF Memory, MemoryOK, EnvsOK, IsSeq
  <1>2. CASE i = 0
    BY <1>2 DEF AddressOf
  <1>3. CASE i # 0
    <2>1. i \in 1 .. Len(envs)
      BY <1>1, <1>3
    <2>2. PICK v : v = envs[i]
      OBVIOUS
    <2>3. v.at # None
      BY <2>1, <2>2, EnvReads
    <2> QED
      BY <1>3, <2>1, <2>2, <2>3 DEF AddressOf
  <1> QED
    BY <1>2, <1>3

\* The walk up the chain in what the callers made, and in memory.
LEMMA ViewAncestorIs ==
  ASSUME Memory, NEW e \in 1 .. Len(envs), NEW n \in Nat, NEW h, Chain(e, n, h), NEW level \in 0 .. n
  PROVE  ViewAncestor(e, level) = h[level]
  <1> DEFINE up == CHOOSE f : f = [l \in 0 .. level |->
                     IF l = 0 THEN e ELSE IF f[l - 1] = 0 THEN 0 ELSE envs[f[l - 1]].parent]
  <1>1. PICK g : g = [l \in 0 .. level |-> h[l]]
    OBVIOUS
  <1>2. level \in Nat /\ \A l \in 0 .. level : l \in 0 .. n /\ (l # 0 => l \in 1 .. n /\ l - 1 \in 0 .. level)
    OBVIOUS
  <1>3. \A l \in 0 .. level : g[l] = IF l = 0 THEN e ELSE IF g[l - 1] = 0 THEN 0 ELSE envs[g[l - 1]].parent
    BY <1>1, <1>2 DEF Chain
  <1>4. g = [l \in 0 .. level |-> IF l = 0 THEN e ELSE IF g[l - 1] = 0 THEN 0 ELSE envs[g[l - 1]].parent]
    BY <1>1, <1>3
  <1>5. up = [l \in 0 .. level |-> IF l = 0 THEN e ELSE IF up[l - 1] = 0 THEN 0 ELSE envs[up[l - 1]].parent]
    BY <1>4
  <1>6. ViewAncestor(e, level) = up[level]
    BY DEF ViewAncestor
  <1> HIDE DEF up
  <1> DEFINE T == {l \in 0 .. level : up[l] # h[l]}
  <1>7. T = {}
    <2>1. SUFFICES ASSUME T # {} PROVE FALSE
      OBVIOUS
    <2>2. PICK m \in T : \A l \in T : m <= l
      <3>1. T \in SUBSET Nat
        BY <1>2
      <3> QED
        BY <2>1, <3>1, LeastOf
    <2>3. m # 0
      BY <1>5, <2>2 DEF Chain
    <2>4. m \in 1 .. n /\ m - 1 \in 0 .. level /\ m - 1 \notin T
      BY <1>2, <2>2, <2>3
    <2>5. up[m - 1] = h[m - 1]
      BY <2>4
    <2>6. up[m] = h[m]
      BY <1>5, <2>2, <2>3, <2>4, <2>5 DEF Chain
    <2> QED
      BY <2>2, <2>6
  <1>8. level \in 0 .. level
    BY <1>2
  <1> QED
    BY <1>6, <1>7, <1>8

LEMMA AncestorIs ==
  ASSUME Memory, NEW e \in 1 .. Len(envs), NEW n \in Nat, NEW h, Chain(e, n, h), NEW level \in 0 .. n
  PROVE  Ancestor(envs[e].at, level) = AddressOf(envs, h[level])
  <1> DEFINE up == CHOOSE f : f = [l \in 0 .. level |->
                     IF l = 0 THEN envs[e].at ELSE IF f[l - 1] = None THEN None ELSE nn_env_parent(f[l - 1])]
  <1>1. PICK g : g = [l \in 0 .. level |-> AddressOf(envs, h[l])]
    OBVIOUS
  <1>2. level \in Nat /\ \A l \in 0 .. level : l \in 0 .. n /\ (l # 0 => l \in 1 .. n /\ l - 1 \in 0 .. level)
    OBVIOUS
  <1>3. ASSUME NEW l \in 0 .. level
        PROVE  AddressOf(envs, h[l]) = IF l = 0 THEN envs[e].at
                      ELSE IF AddressOf(envs, h[l - 1]) = None THEN None ELSE nn_env_parent(AddressOf(envs, h[l - 1]))
    <2>1. CASE l = 0
      <3>1. h[l] = e /\ e # 0
        BY <2>1 DEF Chain
      <3> QED
        BY <2>1, <3>1 DEF AddressOf
    <2>2. CASE l # 0
      <3>1. l \in 1 .. n /\ l - 1 \in 0 .. n
        BY <1>2, <2>2
      <3>2. PICK i : i = h[l - 1] /\ i \in 0 .. Len(envs)
        BY <3>1 DEF Chain
      <3>3. h[l] = IF i = 0 THEN 0 ELSE envs[i].parent
        BY <3>1, <3>2 DEF Chain
      <3>4. CASE i = 0
        BY <2>2, <3>2, <3>3, <3>4 DEF AddressOf
      <3>5. CASE i # 0
        <4>1. i \in 1 .. Len(envs) /\ AddressOf(envs, i) = envs[i].at /\ AddressOf(envs, i) # None
          BY <3>2, <3>5, AddressOfFacts
        <4>2. PICK v : v = envs[i]
          OBVIOUS
        <4>3. nn_env_parent(v.at) = AddressOf(envs, v.parent)
          BY <4>1, <4>2, EnvReads
        <4> QED
          BY <2>2, <3>2, <3>3, <3>5, <4>1, <4>2, <4>3
      <3> QED
        BY <3>4, <3>5
    <2> QED
      BY <2>1, <2>2
  <1>4. g = [l \in 0 .. level |-> IF l = 0 THEN envs[e].at
                                  ELSE IF g[l - 1] = None THEN None ELSE nn_env_parent(g[l - 1])]
    <2>1. ASSUME NEW l \in 0 .. level
          PROVE  g[l] = IF l = 0 THEN envs[e].at ELSE IF g[l - 1] = None THEN None ELSE nn_env_parent(g[l - 1])
      <3>1. l # 0 => g[l - 1] = AddressOf(envs, h[l - 1])
        BY <1>1, <1>2
      <3>2. g[l] = AddressOf(envs, h[l])
        BY <1>1
      <3> QED
        BY <1>3, <3>1, <3>2
    <2> QED
      BY <1>1, <2>1
  <1>5. up = [l \in 0 .. level |-> IF l = 0 THEN envs[e].at
                                   ELSE IF up[l - 1] = None THEN None ELSE nn_env_parent(up[l - 1])]
    BY <1>4
  <1>6. Ancestor(envs[e].at, level) = up[level]
    BY DEF Ancestor
  <1> HIDE DEF up
  <1> DEFINE T == {l \in 0 .. level : up[l] # g[l]}
  <1>7. T = {}
    <2>1. SUFFICES ASSUME T # {} PROVE FALSE
      OBVIOUS
    <2>2. PICK m \in T : \A l \in T : m <= l
      <3>1. T \in SUBSET Nat
        BY <1>2
      <3> QED
        BY <2>1, <3>1, LeastOf
    <2>3. m # 0
      BY <1>4, <1>5, <2>2
    <2>4. m - 1 \in 0 .. level /\ m - 1 \notin T /\ m \in 0 .. level
      BY <1>2, <2>2, <2>3
    <2>5. up[m - 1] = g[m - 1]
      BY <2>4
    <2>6. up[m] = IF up[m - 1] = None THEN None ELSE nn_env_parent(up[m - 1])
      BY <1>5, <2>3, <2>4
    <2>7. g[m] = IF g[m - 1] = None THEN None ELSE nn_env_parent(g[m - 1])
      BY <1>4, <2>3, <2>4
    <2> QED
      BY <2>2, <2>5, <2>6, <2>7
  <1>8. level \in 0 .. level
    BY <1>2
  <1> QED
    BY <1>1, <1>6, <1>7, <1>8

LEMMA LookupReads ==
  ASSUME Memory, NEW e \in 1 .. Len(envs), NEW level \in Nat, NEW idx \in Nat
  PROVE  nn_env_lookup_resolved(envs[e].at, level, idx) = ViewLookup(e, level, idx)
  <1>1. PICK h : Chain(e, level, h)
    BY ChainExists
  <1>2. level \in 0 .. level
    OBVIOUS
  <1>3. PICK i : i = h[level] /\ i \in 0 .. Len(envs)
    BY <1>1, <1>2 DEF Chain
  <1>4. ViewAncestor(e, level) = i /\ Ancestor(envs[e].at, level) = AddressOf(envs, i)
    BY <1>1, <1>2, <1>3, ViewAncestorIs, AncestorIs
  <1>5. CASE i = 0
    BY <1>4, <1>5 DEF nn_env_lookup_resolved, ViewLookup, AddressOf
  <1>6. CASE i # 0
    <2>1. i \in 1 .. Len(envs) /\ AddressOf(envs, i) = envs[i].at /\ AddressOf(envs, i) # None
      BY <1>3, <1>6, AddressOfFacts
    <2>2. PICK v : v = envs[i]
      OBVIOUS
    <2>3. /\ nn_env_slot_count(v.at) = v.count /\ nn_env_slots(v.at) = AddressOf(arrays, v.slots)
          /\ v.slots \in 0 .. Len(arrays) /\ v.count \in Nat
          /\ v.count = IF v.slots = 0 THEN 0 ELSE Len(arrays[v.slots].words)
      BY <2>1, <2>2, EnvReads
    <2>4. nn_env_lookup_resolved(envs[e].at, level, idx) =
            IF idx >= v.count THEN None ELSE ReadWord(AddressOf(arrays, v.slots), idx)
      BY <1>4, <2>1, <2>2, <2>3 DEF nn_env_lookup_resolved
    <2>5. ViewLookup(e, level, idx) =
            IF idx >= v.count THEN None ELSE arrays[v.slots].words[idx + 1]
      BY <1>4, <1>6, <2>2 DEF ViewLookup
    <2>6. CASE idx >= v.count
      BY <2>4, <2>5, <2>6
    <2>7. CASE ~ (idx >= v.count)
      <3>1. v.slots # 0 /\ Len(arrays) \in Nat
        BY <2>3, <2>7 DEF Memory, MemoryOK, ArraysOK, IsSeq
      <3>2. PICK a : a = v.slots /\ a \in 1 .. Len(arrays)
        BY <2>3, <3>1
      <3>3. v.count = Len(arrays[a].words) /\ AddressOf(arrays, a) = arrays[a].at
        BY <2>3, <3>1, <3>2 DEF AddressOf
      <3>4. idx \in 0 .. Len(arrays[a].words) - 1
        BY <2>3, <2>7, <3>3
      <3>5. ReadWord(arrays[a].at, idx) = arrays[a].words[idx + 1]
        BY <3>2, <3>4, ArrayReads
      <3> QED
        BY <2>4, <2>5, <2>7, <3>2, <3>3, <3>5
    <2> QED
      BY <2>6, <2>7
  <1> QED
    BY <1>5, <1>6

\* Each step up the chain comes to an environment made earlier, and ends.
LEMMA ChainDescends ==
  ASSUME Memory, NEW e \in 1 .. Len(envs), NEW n \in Nat, NEW h, Chain(e, n, h)
  PROVE  /\ \A l \in 0 .. n : h[l] # 0 => h[l] + l <= e
         /\ \A l \in 0 .. n : \A m \in 0 .. n : l <= m /\ h[l] = 0 => h[m] = 0
  <1>1. /\ \A l \in 0 .. n : h[l] \in 0 .. Len(envs)
        /\ h[0] = e
        /\ \A l \in 1 .. n : h[l] = IF h[l - 1] = 0 THEN 0 ELSE envs[h[l - 1]].parent
        /\ Len(envs) \in Nat
    BY ParentFacts DEF Chain
  <1> DEFINE T == {l \in 0 .. n : ~ (h[l] # 0 => h[l] + l <= e)}
  <1>2. T = {}
    <2>1. SUFFICES ASSUME T # {} PROVE FALSE
      OBVIOUS
    <2>2. PICK m \in T : \A l \in T : m <= l
      <3>1. T \in SUBSET Nat
        OBVIOUS
      <3> QED
        BY <2>1, <3>1, LeastOf
    <2>3. m # 0
      BY <1>1, <2>2
    <2>4. m \in 1 .. n /\ m - 1 \in 0 .. n /\ m - 1 \notin T
      BY <2>2, <2>3
    <2>5. PICK i, j : i = h[m - 1] /\ j = h[m] /\ i \in 0 .. Len(envs) /\ j \in 0 .. Len(envs)
      BY <1>1, <2>4
    <2>6. i # 0 /\ j # 0 /\ ~ (j + m <= e)
      BY <1>1, <2>2, <2>4, <2>5
    <2>7. i + (m - 1) <= e
      BY <2>4, <2>5, <2>6
    <2>8. i \in 1 .. Len(envs) /\ j = envs[i].parent
      BY <1>1, <2>4, <2>5, <2>6
    <2>9. j \in 0 .. i - 1
      BY <2>8, ParentFacts
    <2> QED
      BY <1>1, <2>4, <2>5, <2>6, <2>7, <2>9
  <1>3. ASSUME NEW l \in 0 .. n, h[l] = 0, NEW k \in 0 .. n, l <= k PROVE h[k] = 0
    <2> DEFINE U == {m \in 0 .. n : l <= m /\ h[m] # 0}
    <2>1. SUFFICES ASSUME U # {} PROVE FALSE
      BY <1>3
    <2>2. PICK m \in U : \A j \in U : m <= j
      <3>1. U \in SUBSET Nat
        OBVIOUS
      <3> QED
        BY <2>1, <3>1, LeastOf
    <2>3. m # l
      BY <1>3, <2>2
    <2>4. m \in 1 .. n /\ m - 1 \in 0 .. n /\ l <= m - 1 /\ m - 1 \notin U
      BY <2>2, <2>3
    <2>5. h[m - 1] = 0
      BY <2>4
    <2> QED
      BY <1>1, <2>2, <2>4, <2>5
  <1> QED
    BY <1>2, <1>3

LEMMA RootReads ==
  ASSUME Memory, NEW e \in 1 .. Len(envs)
  PROVE  nn_env_root_scope(envs[e].at) = ViewRootScope(e)
  <1>1. MaxMade \in Nat /\ Len(envs) \in Nat /\ Len(envs) <= MaxMade + 1
    BY PageSizes DEF Memory, MemoryOK, EnvsOK, ArraysOK, IsSeq
  <1>2. PICK h : Chain(e, MaxMade, h)
    BY <1>1, ChainExists
  <1>3. PICK n : n = MaxMade /\ n \in Nat /\ Levels = 0 .. n
    BY <1>1 DEF Levels
  <1>4. /\ \A l \in 0 .. n : h[l] \in 0 .. Len(envs)
        /\ h[0] = e
        /\ \A l \in 1 .. n : h[l] = IF h[l - 1] = 0 THEN 0 ELSE envs[h[l - 1]].parent
    BY <1>2, <1>3 DEF Chain
  <1>5. \A l \in 0 .. n : ViewAncestor(e, l) = h[l] /\ Ancestor(envs[e].at, l) = AddressOf(envs, h[l])
    BY <1>2, <1>3, ViewAncestorIs, AncestorIs
  <1>6. /\ \A l \in 0 .. n : h[l] # 0 => h[l] + l <= e
        /\ \A l, m \in 0 .. n : l <= m /\ h[l] = 0 => h[m] = 0
    BY <1>2, <1>3, ChainDescends
  <1> DEFINE IsRoot(l) == h[l] # 0 /\ envs[h[l]].parent = 0
  <1>7. ASSUME NEW l \in 0 .. n
        PROVE  (Ancestor(envs[e].at, l) # None /\ nn_env_parent(Ancestor(envs[e].at, l)) = None) <=> IsRoot(l)
    <2>1. PICK i : i = h[l] /\ i \in 0 .. Len(envs)
      BY <1>4
    <2>2. Ancestor(envs[e].at, l) = AddressOf(envs, i)
      BY <1>5, <2>1
    <2>3. CASE i = 0
      BY <2>1, <2>2, <2>3 DEF AddressOf
    <2>4. CASE i # 0
      <3>1. i \in 1 .. Len(envs) /\ AddressOf(envs, i) = envs[i].at /\ AddressOf(envs, i) # None
        BY <2>1, <2>4, AddressOfFacts
      <3>2. PICK v : v = envs[i]
        OBVIOUS
      <3>3. nn_env_parent(v.at) = AddressOf(envs, v.parent) /\ v.parent \in 0 .. i - 1
        BY <3>1, <3>2, EnvReads
      <3>4. v.parent \in 0 .. Len(envs)
        BY <1>1, <3>1, <3>3
      <3>5. AddressOf(envs, v.parent) = None <=> v.parent = 0
        BY <3>4, AddressOfFacts
      <3> QED
        BY <2>1, <2>2, <2>4, <3>1, <3>2, <3>3, <3>5
    <2> QED
      BY <2>3, <2>4
  <1>8. PICK root \in 0 .. n : IsRoot(root)
    <2> DEFINE T == {i \in 1 .. Len(envs) : \E l \in 0 .. n : h[l] = i}
    <2>1. e \in T /\ T \in SUBSET Nat
      <3>1. 0 \in 0 .. n
        BY <1>3
      <3>2. e \in T
        BY <1>4, <3>1
      <3>3. 1 .. Len(envs) \in SUBSET Nat
        BY <1>1
      <3> QED
        BY <3>2, <3>3
    <2>2. PICK r \in T : \A i \in T : r <= i
      BY <2>1, LeastOf
    <2>3. PICK l \in 0 .. n : h[l] = r
      BY <2>2
    <2>4. r \in 1 .. Len(envs) /\ r # 0
      BY <1>1, <2>2
    <2>5. envs[r].parent \in 0 .. r - 1 /\ (r = 1 => envs[r].parent = 0)
      BY <2>4, ParentFacts
    <2>6. envs[r].parent = 0
      <3>1. CASE l = n
        <4>1. r + n <= e
          BY <1>6, <2>3, <2>4, <3>1
        <4>2. r = 1
          BY <1>1, <1>3, <2>4, <4>1
        <4> QED
          BY <2>5, <4>2
      <3>2. CASE l # n
        <4>1. l + 1 \in 1 .. n /\ l + 1 \in 0 .. n /\ (l + 1) - 1 = l
          BY <1>3, <3>2
        <4>2. h[l + 1] = envs[r].parent
          BY <1>4, <2>3, <2>4, <4>1
        <4>3. SUFFICES ASSUME envs[r].parent # 0 PROVE FALSE
          OBVIOUS
        <4>4. h[l + 1] \in 1 .. Len(envs)
          BY <1>1, <1>4, <4>1, <4>2, <4>3
        <4>5. h[l + 1] \in T
          BY <4>1, <4>4
        <4>6. r <= h[l + 1]
          BY <2>2, <4>5
        <4> QED
          BY <1>1, <2>4, <2>5, <4>2, <4>6
      <3> QED
        BY <3>1, <3>2
    <2> QED
      BY <2>3, <2>4, <2>6
  <1>9. ASSUME NEW l \in 0 .. n, IsRoot(l), NEW m \in 0 .. n, IsRoot(m), l < m PROVE FALSE
    <2>1. l + 1 \in 1 .. n /\ l + 1 \in 0 .. n /\ (l + 1) - 1 = l /\ l + 1 <= m
      BY <1>3, <1>9
    <2>2. h[l + 1] = 0
      BY <1>4, <1>9, <2>1
    <2>3. h[m] = 0
      BY <1>6, <2>1, <2>2
    <2> QED
      BY <1>9, <2>3
  <1>10. \A l \in 0 .. n : IsRoot(l) => l = root
    BY <1>8, <1>9
  <1>11. PICK r : r = h[root] /\ r \in 1 .. Len(envs)
    BY <1>1, <1>4, <1>8
  <1>12. nn_env_root_scope(envs[e].at) = envs[r].lazy
    <2>1. (CHOOSE l \in Levels : /\ Ancestor(envs[e].at, l) # None
                                 /\ nn_env_parent(Ancestor(envs[e].at, l)) = None) = root
      BY <1>3, <1>7, <1>8, <1>10
    <2>2. nn_env_root_scope(envs[e].at) = nn_env_lazy_scope(Ancestor(envs[e].at, root))
      BY <2>1 DEF nn_env_root_scope
    <2>3. Ancestor(envs[e].at, root) = envs[r].at
      <3>1. r # 0
        BY <1>11
      <3> QED
        BY <1>5, <1>11, <3>1 DEF AddressOf
    <2>4. PICK v : v = envs[r]
      OBVIOUS
    <2>5. nn_env_lazy_scope(v.at) = v.lazy
      BY <1>11, <2>4, EnvReads
    <2> QED
      BY <2>2, <2>3, <2>4, <2>5
  <1>13. ViewRootScope(e) = envs[r].lazy
    <2>1. (CHOOSE x \in {ViewAncestor(e, l) : l \in Levels} : x # 0 /\ envs[x].parent = 0) = r
      <3>1. r \in {ViewAncestor(e, l) : l \in Levels} /\ r # 0 /\ envs[r].parent = 0
        BY <1>3, <1>5, <1>8, <1>11
      <3>2. ASSUME NEW x \in {ViewAncestor(e, l) : l \in Levels}, x # 0, envs[x].parent = 0 PROVE x = r
        <4>1. PICK l \in 0 .. n : x = h[l]
          BY <1>3, <1>5
        <4>2. l = root
          BY <1>10, <3>2, <4>1
        <4> QED
          BY <1>11, <4>1, <4>2
      <3> QED
        BY <3>1, <3>2
    <2> QED
      BY <2>1 DEF ViewRootScope
  <1> QED
    BY <1>12, <1>13

LEMMA MemoryReads == Memory => MemoryReadsBack
  <1>1. SUFFICES ASSUME Memory PROVE MemoryReadsBack
    OBVIOUS
  <1>2. ASSUME NEW a \in 1 .. Len(arrays)
        PROVE  WordsAt(arrays[a].at, Len(arrays[a].words)) = arrays[a].words
    <2>1. PICK y, words : y = arrays[a].at /\ words = arrays[a].words
      OBVIOUS
    <2>2. IsSeq(words) /\ Lies(pages, y, words)
      BY <1>1, <2>1, ArrayReads
    <2>3. WordsAt(y, Len(words)) = words
      BY <2>2, WordsLie
    <2> QED
      BY <2>1, <2>3
  <1>3. ASSUME NEW e \in 1 .. Len(envs)
        PROVE  LET at == envs[e].at
               IN  /\ nn_env_lazy_scope(at) = envs[e].lazy
                   /\ ReadWord(at, 5) = CountWord(Len(envs[e].withs))
                   /\ WordsAt(nn_env_with_scopes(at), Len(envs[e].withs)) = envs[e].withs
                   /\ \A level \in Levels, idx \in 0 .. 1 :
                        nn_env_lookup_resolved(at, level, idx) = ViewLookup(e, level, idx)
                   /\ nn_env_root_scope(at) = ViewRootScope(e)
    <2>1. PICK v : v = envs[e]
      OBVIOUS
    <2>2. /\ nn_env_lazy_scope(v.at) = v.lazy
          /\ ReadWord(v.at, 5) = CountWord(Len(v.withs))
          /\ WordsAt(nn_env_with_scopes(v.at), Len(v.withs)) = v.withs
      BY <1>1, <2>1, EnvReads
    <2>3. \A level \in Levels, idx \in 0 .. 1 :
             nn_env_lookup_resolved(envs[e].at, level, idx) = ViewLookup(e, level, idx)
      <3>1. \A level \in Levels, idx \in 0 .. 1 : level \in Nat /\ idx \in Nat
        BY PageSizes DEF Levels
      <3> QED
        BY <1>1, <3>1, LookupReads
    <2>4. nn_env_root_scope(envs[e].at) = ViewRootScope(e)
      BY <1>1, RootReads
    <2> QED
      BY <2>1, <2>2, <2>3, <2>4
  <1> QED
    BY <1>2, <1>3 DEF MemoryReadsBack

-----------------------------------------------------------------------------
(* Every operation on environments leaves memory as its callers expect it.  *)

LEMMA AllocWordsFacts ==
  ASSUME NEW pgs, PagesOK(pgs), NEW n \in Nat, NEW got \in AllocWords(pgs, n), got.at # None
  PROVE  Granted(pgs, got.pages, got.at, n) /\ pgs # << >>
  <1>1. ~ (n > MaxWords)
    BY DEF AllocWords, Refused
  <1>2. n <= MaxWords /\ got \in nn_env_alloc_raw(pgs, n)
    BY <1>1, PageSizes DEF AllocWords
  <1> QED
    BY <1>2, AllocFacts

LEMMA MemoryFacts ==
  ASSUME Memory
  PROVE  /\ PagesOK(pages) /\ IsSeq(arrays) /\ IsSeq(envs)
         /\ Len(arrays) \in Nat /\ Len(envs) \in Nat /\ Len(envs) >= 1
         /\ MemoryOK(pages, arrays, envs)
         /\ Made < MaxMade => Len(arrays) + Len(envs) <= MaxMade
  <1>1. /\ PagesOK(pages) /\ IsSeq(arrays) /\ IsSeq(envs) /\ Len(envs) >= 1
        /\ MemoryOK(pages, arrays, envs)
    BY DEF Memory, MemoryOK, ArraysOK, EnvsOK
  <1>2. Len(arrays) \in Nat /\ Len(envs) \in Nat
    BY <1>1 DEF IsSeq
  <1>3. Made < MaxMade => Len(arrays) + Len(envs) <= MaxMade
    BY <1>2, PageSizes DEF Made
  <1> QED
    BY <1>1, <1>2, <1>3

LEMMA SlotsStep ==
  ASSUME Memory, NEW n \in Nat, nn_env_alloc_slots(n)
  PROVE  Memory' /\ ArraysStay(arrays, arrays')
  <1>1. PICK got \in AllocWords(pages, n) :
          /\ got.at # None
          /\ pages' = got.pages
          /\ arrays' = Append(arrays, [at |-> got.at, words |-> [i \in 1 .. n |-> None]])
    BY DEF nn_env_alloc_slots
  <1>2. Made < MaxMade /\ envs' = envs
    BY DEF nn_env_alloc_slots
  <1>3. PICK y, new, none : y = got.at /\ new = got.pages /\ none = [i \in 1 .. n |-> None]
    OBVIOUS
  <1>4. Granted(pages, new, y, n)
    BY <1>1, <1>3, MemoryFacts, AllocWordsFacts
  <1>5. Landed(pages, new, y, none) /\ IsSeq(none)
    BY <1>3, <1>4, LandedNone
  <1>6. /\ MemoryOK(new, Append(arrays, [at |-> y, words |-> none]), envs)
        /\ ArraysStay(arrays, Append(arrays, [at |-> y, words |-> none]))
    BY <1>2, <1>5, MemoryFacts, ArrayAdded
  <1> QED
    BY <1>1, <1>2, <1>3, <1>6 DEF Memory

LEMMA FillStep ==
  ASSUME Memory, NEW a \in 1 .. Len(arrays), fillCSlots(a)
  PROVE  Memory' /\ ArraysStay(arrays, arrays')
  <1>1. PICK thunks, n : n = Len(arrays[a].words) /\ thunks = [i \in 1 .. n |-> Thunk(a, i)]
    OBVIOUS
  <1>2. /\ pages' = Written(pages, arrays[a].at, thunks)
        /\ arrays' = [arrays EXCEPT ![a].words = thunks] /\ envs' = envs
    BY <1>1 DEF fillCSlots
  <1>3. n \in Nat
    BY <1>1, ArrayReads
  <1>4. IsSeq(thunks) /\ Len(thunks) = n
    BY <1>1, <1>3, BuiltFacts
  <1>5. /\ MemoryOK(Written(pages, arrays[a].at, thunks), [arrays EXCEPT ![a].words = thunks], envs)
        /\ ArraysStay(arrays, [arrays EXCEPT ![a].words = thunks])
    BY <1>1, <1>4, MemoryFacts, ArrayFilled
  <1> QED
    BY <1>2, <1>5 DEF Memory

LEMMA CaptureStep ==
  ASSUME Memory, NEW e \in 1 .. Len(envs), NEW level \in Nat, NEW idx \in Nat,
         CaptureSlot(e, level, idx)
  PROVE  Memory' /\ ArraysStay(arrays, arrays')
  <1>1. PICK word : word = ViewLookup(e, level, idx)
    OBVIOUS
  <1>2. nn_env_lookup_resolved(envs[e].at, level, idx) = word
    BY <1>1, LookupReads
  <1>3. Made < MaxMade /\ envs' = envs
    BY DEF CaptureSlot
  <1>4. PICK got \in AllocWords(pages, 1) :
          /\ got.at # None
          /\ pages' = Written(got.pages, got.at, <<word>>)
          /\ arrays' = Append(arrays, [at |-> got.at, words |-> <<word>>])
    BY <1>1, <1>2 DEF CaptureSlot
  <1>5. PICK y, mid, words : y = got.at /\ mid = got.pages /\ words = <<word>>
    OBVIOUS
  <1>6. IsSeq(words) /\ Len(words) = 1
    <2>1. PICK S : S = {word}
      OBVIOUS
    <2>2. words \in Seq(S) /\ Len(words) = 1
      BY <1>5, <2>1
    <2> QED
      BY <2>2, InSeq
  <1>7. Granted(pages, mid, y, 1)
    BY <1>4, <1>5, MemoryFacts, AllocWordsFacts
  <1>8. Landed(pages, Written(mid, y, words), y, words)
    BY <1>6, <1>7, LandedWords
  <1>9. PICK new : new = Written(mid, y, words)
    OBVIOUS
  <1>10. /\ MemoryOK(new, Append(arrays, [at |-> y, words |-> words]), envs)
         /\ ArraysStay(arrays, Append(arrays, [at |-> y, words |-> words]))
    BY <1>3, <1>6, <1>8, <1>9, MemoryFacts, ArrayAdded
  <1> QED
    BY <1>3, <1>4, <1>5, <1>9, <1>10 DEF Memory

\* A structure made over what its view says.
LEMMA NewEnvStep ==
  ASSUME Memory, Made < MaxMade, NEW pgs, MemoryOK(pgs, arrays, envs), NEW v, ViewOK(arrays, envs, v),
         NEW w, WithsLie(pgs, arrays, w, v.withs),
         NEW words, words = StructOf(arrays, envs, v, w), NewEnv(pgs, words, v), UNCHANGED arrays
  PROVE  Memory' /\ ArraysStay(arrays, arrays')
  <1>1. MadeEnv(pgs, pages', envs, envs', words, v)
    BY DEF NewEnv, MadeEnv
  <1>2. MemoryOK(pages', arrays, envs')
    BY <1>1, MemoryFacts, NewEnvStays
  <1>3. ArraysStay(arrays, arrays)
    <2>1. Len(arrays) <= Len(arrays)
      BY MemoryFacts
    <2> QED
      BY <2>1, MemoryFacts DEF ArraysStay
  <1> QED
    BY <1>2, <1>3 DEF Memory

LEMMA ViewFacts ==
  ASSUME Memory, NEW a \in 0 .. Len(arrays), NEW lazy, NEW e \in 0 .. Len(envs),
         NEW withs, IsSeq(withs), NEW v, v = View(a, lazy, e, withs)
  PROVE  /\ ViewOK(arrays, envs, v) /\ v.slots = a /\ v.lazy = lazy /\ v.parent = e /\ v.withs = withs
  <1>1. v = [at |-> None, slots |-> a, count |-> IF a = 0 THEN 0 ELSE Len(arrays[a].words),
             lazy |-> lazy, parent |-> e, withs |-> withs]
    BY DEF View
  <1>2. /\ v.at = None /\ v.slots = a /\ v.lazy = lazy /\ v.parent = e /\ v.withs = withs
        /\ v.count = IF a = 0 THEN 0 ELSE Len(arrays[a].words)
    BY <1>1
  <1> QED
    BY <1>1, <1>2 DEF ViewOK

LEMMA NoWiths ==
  ASSUME NEW pgs, NEW arrs, NEW w
  PROVE  IsSeq(<< >>) /\ Len(<< >>) = 0 /\ WithsLie(pgs, arrs, w, << >>)
  <1>1. << >> \in Seq({}) /\ Len(<< >>) = 0
    OBVIOUS
  <1>2. IsSeq(<< >>)
    BY <1>1, InSeq
  <1>3. WithsLie(pgs, arrs, w, << >>)
    BY <1>1 DEF WithsLie
  <1> QED
    BY <1>1, <1>2, <1>3

LEMMA LandedClear ==
  ASSUME NEW pgs, NEW new, NEW arrs, NEW es, MemoryOK(pgs, arrs, es),
         NEW y, NEW words, Landed(pgs, new, y, words)
  PROVE  MemoryOK(new, arrs, es) /\ WithsLie(new, arrs, y, words)
  <1>1. PagesOK(new) /\ Grows(pgs, new) /\ IsNew(pgs, y, Len(words)) /\ Lies(new, y, words)
    BY DEF Landed
  <1>2. MemoryOK(new, arrs, es)
    BY <1>1, MemoryGrows
  <1>3. ASSUME NEW a \in 1 .. Len(arrs) PROVE Apart(y, Len(words), arrs[a].at, Len(arrs[a].words))
    <2>1. PICK x, n : x = arrs[a].at /\ n = Len(arrs[a].words)
      OBVIOUS
    <2>2. ArrayOK(pgs, arrs[a])
      BY DEF MemoryOK, ArraysOK
    <2>3. n \in Nat /\ Inside(pgs, x, n)
      BY <2>1, <2>2 DEF ArrayOK, Lies, IsSeq
    <2>4. Apart(x, n, y, Len(words))
      BY <1>1, <2>3 DEF IsNew
    <2> QED
      BY <2>1, <2>4 DEF Apart
  <1>4. ClearOfArrays(arrs, y, Len(words))
    BY <1>3 DEF ClearOfArrays
  <1> QED
    BY <1>1, <1>2, <1>4 DEF WithsLie

LEMMA MinimalStep ==
  ASSUME Memory, Made < MaxMade, NEW a \in 0 .. Len(arrays), nn_env_new_minimal(a)
  PROVE  Memory' /\ ArraysStay(arrays, arrays')
  <1>1. PICK v : v = View(a, None, 0, << >>)
    OBVIOUS
  <1>2. IsSeq(<< >>) /\ Len(<< >>) = 0 /\ WithsLie(pages, arrays, None, << >>)
    BY NoWiths
  <1>3. 0 \in 0 .. Len(envs)
    BY MemoryFacts
  <1>4. ViewOK(arrays, envs, v) /\ v.slots = a /\ v.lazy = None /\ v.parent = 0 /\ v.withs = << >>
    BY <1>1, <1>2, <1>3, ViewFacts
  <1>5. PICK words : words = Struct(AddressOf(arrays, a), v.count, None, None, None, 0)
    OBVIOUS
  <1>6. words = StructOf(arrays, envs, v, None)
    BY <1>2, <1>4, <1>5 DEF StructOf, AddressOf
  <1>7. NewEnv(pages, words, v) /\ UNCHANGED arrays
    BY <1>1, <1>5 DEF nn_env_new_minimal
  <1>8. WithsLie(pages, arrays, None, v.withs)
    BY <1>2, <1>4
  <1> QED
    BY <1>4, <1>6, <1>7, <1>8, MemoryFacts, NewEnvStep

LEMMA NewStep ==
  ASSUME Memory, Made < MaxMade, NEW a \in 0 .. Len(arrays), NEW e \in 0 .. Len(envs), nn_env_new(a, e)
  PROVE  Memory' /\ ArraysStay(arrays, arrays')
  <1>1. PICK p, withs, v, w, n :
          /\ p = AddressOf(envs, e)
          /\ withs = IF e = 0 THEN << >> ELSE envs[e].withs
          /\ v = View(a, Scope(Len(envs)), e, withs)
          /\ w = IF e = 0 THEN None ELSE nn_env_with_scopes(p)
          /\ n = IF e = 0 THEN 0 ELSE nn_env_with_count(p)
    OBVIOUS
  <1>2. IsSeq(withs) /\ WithsLie(pages, arrays, w, withs) /\ n = Len(withs)
    <2>1. CASE e = 0
      BY <1>1, <2>1, NoWiths
    <2>2. CASE e # 0
      <3>1. e \in 1 .. Len(envs) /\ p = envs[e].at
        BY <1>1, <2>2, AddressOfFacts
      <3>2. PICK u : u = envs[e]
        OBVIOUS
      <3>3. /\ IsSeq(u.withs) /\ nn_env_with_count(u.at) = Len(u.withs)
            /\ WithsLie(pages, arrays, nn_env_with_scopes(u.at), u.withs)
        BY <3>1, <3>2, EnvReads
      <3> QED
        BY <1>1, <2>2, <3>1, <3>2, <3>3
    <2> QED
      BY <2>1, <2>2
  <1>3. PICK lazy : lazy = Scope(Len(envs))
    OBVIOUS
  <1>4. ViewOK(arrays, envs, v) /\ v.slots = a /\ v.lazy = lazy /\ v.parent = e /\ v.withs = withs
    BY <1>1, <1>2, <1>3, ViewFacts
  <1>5. PICK words : words = Struct(AddressOf(arrays, a), v.count, v.lazy, p, w, n)
    OBVIOUS
  <1>6. words = StructOf(arrays, envs, v, w)
    BY <1>1, <1>2, <1>4, <1>5 DEF StructOf
  <1>7. NewEnv(pages, words, v) /\ UNCHANGED arrays
    BY <1>1, <1>5 DEF nn_env_new
  <1>8. WithsLie(pages, arrays, w, v.withs)
    BY <1>2, <1>4
  <1> QED
    BY <1>4, <1>6, <1>7, <1>8, MemoryFacts, NewEnvStep

LEMMA FromSlotsStep ==
  ASSUME Memory, Made < MaxMade, NEW a \in 0 .. Len(arrays), NEW e \in 1 .. Len(envs),
         nn_env_from_slots(a, e)
  PROVE  Memory' /\ ArraysStay(arrays, arrays')
  <1>1. PICK u, v, w : u = envs[e] /\ v = View(a, None, e, u.withs) /\ w = nn_env_with_scopes(u.at)
    OBVIOUS
  <1>2. /\ IsSeq(u.withs) /\ nn_env_with_count(u.at) = Len(u.withs)
        /\ WithsLie(pages, arrays, w, u.withs)
    BY <1>1, EnvReads
  <1>3. e \in 0 .. Len(envs) /\ AddressOf(envs, e) = u.at
    BY <1>1, MemoryFacts DEF AddressOf
  <1>4. ViewOK(arrays, envs, v) /\ v.slots = a /\ v.lazy = None /\ v.parent = e /\ v.withs = u.withs
    BY <1>1, <1>2, <1>3, ViewFacts
  <1>5. PICK words : words = Struct(AddressOf(arrays, a), v.count, None, u.at, w, nn_env_with_count(u.at))
    OBVIOUS
  <1>6. words = StructOf(arrays, envs, v, w)
    BY <1>2, <1>3, <1>4, <1>5 DEF StructOf
  <1>7. NewEnv(pages, words, v) /\ UNCHANGED arrays
    BY <1>1, <1>5 DEF nn_env_from_slots
  <1>8. WithsLie(pages, arrays, w, v.withs)
    BY <1>2, <1>4
  <1> QED
    BY <1>4, <1>6, <1>7, <1>8, MemoryFacts, NewEnvStep

LEMMA PushStep ==
  ASSUME Memory, Made < MaxMade, NEW e \in 1 .. Len(envs), nn_env_push_with(e)
  PROVE  Memory' /\ ArraysStay(arrays, arrays')
  <1>1. PICK u, scope, n, copied, v :
          /\ u = envs[e] /\ scope = Scope(Len(envs)) /\ n = nn_env_with_count(u.at) + 1
          /\ copied = <<scope>> \o WordsAt(nn_env_with_scopes(u.at), n - 1)
          /\ v = [u EXCEPT !.withs = <<scope>> \o @]
    OBVIOUS
  <1>2. /\ u = [at |-> u.at, slots |-> u.slots, count |-> u.count, lazy |-> u.lazy,
                parent |-> u.parent, withs |-> u.withs]
        /\ u.parent \in 0 .. e - 1 /\ u.slots \in 0 .. Len(arrays)
        /\ IsSeq(u.withs) /\ Len(u.withs) \in Nat
        /\ u.count = IF u.slots = 0 THEN 0 ELSE Len(arrays[u.slots].words)
        /\ nn_env_slots(u.at) = AddressOf(arrays, u.slots) /\ nn_env_slot_count(u.at) = u.count
        /\ nn_env_lazy_scope(u.at) = u.lazy /\ nn_env_parent(u.at) = AddressOf(envs, u.parent)
        /\ nn_env_with_count(u.at) = Len(u.withs)
        /\ WordsAt(nn_env_with_scopes(u.at), Len(u.withs)) = u.withs
    BY <1>1, EnvReads
  <1>3. n \in Nat /\ n - 1 = Len(u.withs) /\ copied = <<scope>> \o u.withs
    BY <1>1, <1>2
  <1>4. IsSeq(copied) /\ Len(copied) = n
    <2>1. PICK s, S : s = <<scope>> /\ S = {scope}
      OBVIOUS
    <2>2. s \in Seq(S) /\ Len(s) = 1
      BY <2>1
    <2>3. IsSeq(s)
      BY <2>2, InSeq
    <2>4. IsSeq(s \o u.withs) /\ Len(s \o u.withs) = Len(s) + Len(u.withs)
      BY <1>2, <2>3, ConcatFacts
    <2> QED
      BY <1>2, <1>3, <2>1, <2>2, <2>4
  <1>5. v = [at |-> u.at, slots |-> u.slots, count |-> u.count, lazy |-> u.lazy,
             parent |-> u.parent, withs |-> copied]
    BY <1>1, <1>2, <1>3
  <1>6. /\ v.at = u.at /\ v.slots = u.slots /\ v.count = u.count /\ v.lazy = u.lazy
        /\ v.parent = u.parent /\ v.withs = copied
    BY <1>5
  <1>7. ViewOK(arrays, envs, v)
    <2>1. u.parent \in 0 .. Len(envs)
      BY <1>2, MemoryFacts
    <2> QED
      BY <1>2, <1>4, <1>5, <1>6, <2>1 DEF ViewOK
  <1>8. PICK got \in AllocWords(pages, n) :
          /\ got.at # None
          /\ NewEnv(Written(got.pages, got.at, copied),
                    Struct(nn_env_slots(u.at), nn_env_slot_count(u.at), nn_env_lazy_scope(u.at),
                           nn_env_parent(u.at), got.at, n), v)
    BY <1>1 DEF nn_env_push_with
  <1>9. PICK y, mid, new : y = got.at /\ mid = got.pages /\ new = Written(mid, y, copied)
    OBVIOUS
  <1>10. Granted(pages, mid, y, n)
    BY <1>3, <1>8, <1>9, MemoryFacts, AllocWordsFacts
  <1>11. Landed(pages, new, y, copied)
    BY <1>3, <1>4, <1>9, <1>10, LandedWords
  <1>12. MemoryOK(new, arrays, envs) /\ WithsLie(new, arrays, y, copied)
    BY <1>11, MemoryFacts, LandedClear
  <1>13. PICK words : words = Struct(nn_env_slots(u.at), nn_env_slot_count(u.at), nn_env_lazy_scope(u.at),
                                     nn_env_parent(u.at), y, n)
    OBVIOUS
  <1>14. words = StructOf(arrays, envs, v, y)
    BY <1>2, <1>4, <1>6, <1>13 DEF StructOf
  <1>15. NewEnv(new, words, v) /\ UNCHANGED arrays
    BY <1>8, <1>9, <1>13 DEF nn_env_push_with
  <1>16. WithsLie(new, arrays, y, v.withs)
    BY <1>6, <1>12
  <1> QED
    BY <1>7, <1>12, <1>14, <1>15, <1>16, NewEnvStep

LEMMA TrimStep ==
  ASSUME Memory, Made < MaxMade, NEW a \in 0 .. Len(arrays), NEW e \in 1 .. Len(envs), TrimEnv(a, e)
  PROVE  Memory' /\ ArraysStay(arrays, arrays')
  <1>1. PICK u, n, root, outermost, withs, v, at :
          /\ u = envs[e] /\ n = nn_env_with_count(u.at) /\ root = nn_env_root_scope(u.at)
          /\ outermost = IF ViewRootScope(e) = None THEN << >> ELSE <<ViewRootScope(e)>>
          /\ withs = u.withs \o outermost
          /\ v = View(a, None, 0, withs) /\ at = nn_env_with_scopes(u.at)
    OBVIOUS
  <1>2. /\ IsSeq(u.withs) /\ Len(u.withs) \in Nat /\ n = Len(u.withs)
        /\ WithsLie(pages, arrays, at, u.withs) /\ WordsAt(at, n) = u.withs
    BY <1>1, EnvReads
  <1>3. root = ViewRootScope(e)
    BY <1>1, RootReads
  <1>4. IsSeq(outermost) /\ Len(outermost) = IF root = None THEN 0 ELSE 1
    <2>1. CASE root = None
      BY <1>1, <1>3, <2>1, NoWiths
    <2>2. CASE root # None
      <3>1. PICK S : S = {root}
        OBVIOUS
      <3>2. <<root>> \in Seq(S) /\ Len(<<root>>) = 1
        BY <3>1
      <3>3. outermost = <<root>>
        BY <1>1, <1>3, <2>2
      <3> QED
        BY <2>2, <3>2, <3>3, InSeq
    <2> QED
      BY <2>1, <2>2
  <1>5. IsSeq(withs) /\ Len(withs) = Len(u.withs) + Len(outermost)
    BY <1>1, <1>2, <1>4, ConcatFacts
  <1>6. 0 \in 0 .. Len(envs)
    BY MemoryFacts
  <1>7. ViewOK(arrays, envs, v) /\ v.slots = a /\ v.lazy = None /\ v.parent = 0 /\ v.withs = withs
    <2>1. IsSeq(withs) /\ v = View(a, None, 0, withs)
      BY <1>1, <1>5
    <2> QED
      BY <1>6, <2>1, ViewFacts
  <1>8. UNCHANGED arrays
    BY DEF TrimEnv
  <1>9. CASE root = None
    <2>1. Len(withs) = n /\ withs = u.withs
      <3>1. u.withs \o << >> = u.withs
        <4>1. PICK S : S = {u.withs[i] : i \in 1 .. Len(u.withs)}
          OBVIOUS
        <4>2. u.withs \in Seq(S)
          BY <1>2, <4>1, SeqIsIn
        <4> QED
          BY <4>2
      <3> QED
        BY <1>1, <1>2, <1>3, <1>9, <3>1
    <2>2. PICK words : words = Struct(AddressOf(arrays, a), v.count, None, None, at, n)
      OBVIOUS
    <2>3. NewEnv(pages, words, v)
      BY <1>1, <1>9, <2>2 DEF TrimEnv
    <2>4. words = StructOf(arrays, envs, v, at)
      BY <1>7, <2>1, <2>2 DEF StructOf, AddressOf
    <2>5. WithsLie(pages, arrays, at, v.withs)
      BY <1>2, <1>7, <2>1
    <2> QED
      BY <1>7, <1>8, <2>3, <2>4, <2>5, MemoryFacts, NewEnvStep
  <1>10. CASE root # None
    <2>1. PICK copied : copied = Append(WordsAt(at, n), root)
      OBVIOUS
    <2>2. copied = withs /\ Len(withs) = n + 1 /\ n + 1 \in Nat
      <3>1. PICK S : u.withs \in Seq(S) /\ root \in S
        <4>1. PICK S : S = {u.withs[i] : i \in 1 .. Len(u.withs)} \cup {root}
          OBVIOUS
        <4>2. u.withs \in Seq(S)
          BY <1>2, <4>1, SeqIsIn
        <4> QED
          BY <4>1, <4>2
      <3>2. outermost = <<root>>
        BY <1>1, <1>3, <1>10
      <3>3. Append(u.withs, root) = u.withs \o <<root>>
        BY <3>1
      <3>4. copied = Append(u.withs, root) /\ withs = u.withs \o outermost
        BY <1>1, <1>2, <2>1
      <3>5. n + 1 \in Nat /\ Len(withs) = n + 1
        BY <1>2, <1>4, <1>5, <1>10
      <3> QED
        BY <3>2, <3>3, <3>4, <3>5
    <2>3. PICK got \in AllocWords(pages, n + 1) :
            /\ got.at # None
            /\ NewEnv(Written(got.pages, got.at, copied),
                      Struct(AddressOf(arrays, a), v.count, None, None, got.at, n + 1), v)
      BY <1>1, <1>10, <2>1 DEF TrimEnv
    <2>4. PICK y, mid, new, m : y = got.at /\ mid = got.pages /\ new = Written(mid, y, copied) /\ m = n + 1
      OBVIOUS
    <2>5. Granted(pages, mid, y, m)
      BY <2>2, <2>3, <2>4, MemoryFacts, AllocWordsFacts
    <2>6. Landed(pages, new, y, copied)
      BY <1>5, <2>2, <2>4, <2>5, LandedWords
    <2>7. MemoryOK(new, arrays, envs) /\ WithsLie(new, arrays, y, copied)
      BY <2>6, MemoryFacts, LandedClear
    <2>8. PICK words : words = Struct(AddressOf(arrays, a), v.count, None, None, y, m)
      OBVIOUS
    <2>9. words = StructOf(arrays, envs, v, y)
      BY <1>7, <2>2, <2>4, <2>8 DEF StructOf, AddressOf
    <2>10. NewEnv(new, words, v)
      BY <2>3, <2>4, <2>8
    <2>11. WithsLie(new, arrays, y, v.withs)
      BY <1>7, <2>2, <2>7
    <2> QED
      BY <1>7, <1>8, <2>7, <2>9, <2>10, <2>11, NewEnvStep
  <1> QED
    BY <1>9, <1>10

LEMMA EnvStep ==
  ASSUME Memory, EnvNext
  PROVE  Memory' /\ ArraysStay(arrays, arrays')
  <1>1. SlotCounts \subseteq Nat /\ Levels \subseteq Nat /\ 0 .. 1 \subseteq Nat
    BY PageSizes DEF Levels
  <1>2. Unframed \subseteq 0 .. Len(arrays)
    BY MemoryFacts DEF Unframed
  <1>3. CASE \E n \in SlotCounts : nn_env_alloc_slots(n)
    BY <1>1, <1>3, SlotsStep
  <1>4. CASE \E a \in 1 .. Len(arrays) : fillCSlots(a)
    BY <1>4, FillStep
  <1>5. CASE \E env \in 1 .. Len(envs) :
               \E level \in Levels : \E idx \in 0 .. 1 : CaptureSlot(env, level, idx)
    BY <1>1, <1>5, CaptureStep
  <1>6. CASE Made < MaxMade /\ \E a \in Unframed : nn_env_new_minimal(a)
    BY <1>2, <1>6, MinimalStep
  <1>7. CASE Made < MaxMade /\ \E a \in Unframed : \E env \in 0 .. Len(envs) : nn_env_new(a, env)
    BY <1>2, <1>7, NewStep
  <1>8. CASE Made < MaxMade /\ \E a \in Unframed : \E env \in 1 .. Len(envs) : nn_env_from_slots(a, env)
    BY <1>2, <1>8, FromSlotsStep
  <1>9. CASE Made < MaxMade /\ \E a \in Unframed : \E env \in 1 .. Len(envs) : TrimEnv(a, env)
    BY <1>2, <1>9, TrimStep
  <1>10. CASE Made < MaxMade /\ \E env \in 1 .. Len(envs) : nn_env_push_with(env)
    BY <1>10, PushStep
  <1> QED
    BY <1>3, <1>4, <1>5, <1>6, <1>7, <1>8, <1>9, <1>10 DEF EnvNext

-----------------------------------------------------------------------------
(* The heap of objects.                                                     *)

PartsOf(block) == IF block.class = "lambda" THEN {block.entries} \ {None} ELSE {}
BlockForm(block) ==
  \/ /\ block.class = "list" /\ block.count \in Nat
     /\ block = [class |-> "list", items |-> block.items, count |-> block.count]
  \/ /\ block.class = "lambda" /\ block.count \in Nat
     /\ block = [class |-> "lambda", env |-> block.env, entries |-> block.entries, count |-> block.count]
  \/ block.class = "ctxstr" /\ block = [class |-> "ctxstr", ctx |-> block.ctx]
  \/ block.class = "entries" /\ block = [class |-> "entries", words |-> block.words]

BlocksForm(hp) ==
  /\ IsFiniteSet(DOMAIN hp) /\ DOMAIN hp \subseteq Nat \ {0}
  /\ \A b \in DOMAIN hp : BlockForm(hp[b])
PartsOwned(hp) ==
  /\ \A b \in DOMAIN hp : \A p \in PartsOf(hp[b]) : p \in DOMAIN hp /\ hp[p].class = "entries"
  /\ \A b, c \in DOMAIN hp : \A p \in PartsOf(hp[b]) : p \in PartsOf(hp[c]) => b = c
  /\ \A p \in DOMAIN hp : hp[p].class = "entries" => \E b \in DOMAIN hp : p \in PartsOf(hp[b])

TrackedOnce(hp, t, class) ==
  /\ t = [blocks |-> t.blocks, cap |-> t.cap]
  /\ IsSeq(t.blocks) /\ t.cap \in Nat /\ Len(t.blocks) <= t.cap
  /\ \A i \in 1 .. Len(t.blocks) : t.blocks[i] \in DOMAIN hp /\ hp[t.blocks[i]].class = class
  /\ \A i, j \in 1 .. Len(t.blocks) : t.blocks[i] = t.blocks[j] => i = j
IsTracked(trk, class, b) == \E i \in 1 .. Len(trk[class].blocks) : trk[class].blocks[i] = b
TrackOK(hp, trk) ==
  /\ trk = [class \in Classes |-> trk[class]]
  /\ \A class \in Classes : TrackedOnce(hp, trk[class], class)

MakingOK(hp, trk, mk) ==
  mk = None \/ /\ mk \in Makings /\ mk.block \in DOMAIN hp /\ hp[mk.block].class \in Classes
               /\ ~ IsTracked(trk, hp[mk.block].class, mk.block)
               /\ mk.need = "items" => hp[mk.block].class = "list"
               /\ mk.need = "entries" => /\ hp[mk.block].class = "lambda"
                                         /\ PartsOf(hp[mk.block]) = {}
RootsOwned(hp, trk, mk) ==
  \A b \in DOMAIN hp : hp[b].class \in Classes =>
     IsTracked(trk, hp[b].class, b) \/ (mk # None /\ mk.block = b)

HeapOK(hp, trk, mk) ==
  /\ BlocksForm(hp) /\ PartsOwned(hp) /\ TrackOK(hp, trk) /\ MakingOK(hp, trk, mk)
  /\ RootsOwned(hp, trk, mk)

LEMMA FormFacts ==
  ASSUME NEW block, BlockForm(block)
  PROVE  /\ block.class \in Classes \/ block.class = "entries"
         /\ "entries" \notin Classes
         /\ block.class = "entries" => PartsOf(block) = {}
  BY DEF BlockForm, Classes, PartsOf

LEMMA FreshFacts ==
  ASSUME BlocksForm(heap)
  PROVE  Fresh \notin DOMAIN heap /\ Fresh \in Nat \ {0} /\ Fresh # None
  <1>1. IsFiniteSet(DOMAIN heap)
    BY DEF BlocksForm
  <1>2. PICK n : n = Cardinality(DOMAIN heap) /\ n \in Nat
    BY <1>1, FS_CardinalityType
  <1>3. \E b \in 1 .. n + 1 : b \notin DOMAIN heap
    <2>1. SUFFICES ASSUME 1 .. n + 1 \subseteq DOMAIN heap PROVE FALSE
      OBVIOUS
    <2>2. Cardinality(1 .. n + 1) <= n
      BY <1>1, <1>2, <2>1, FS_Subset
    <2>3. 1 \in Int /\ n + 1 \in Int
      BY <1>2
    <2>4. Cardinality(1 .. n + 1) = n + 1
      <3>1. Cardinality(1 .. n + 1) = IF 1 > n + 1 THEN 0 ELSE (n + 1) - 1 + 1
        BY <2>3, FS_Interval
      <3> QED
        BY <1>2, <3>1
    <2> QED
      BY <1>2, <2>2, <2>4
  <1>4. Fresh \in 1 .. n + 1 /\ Fresh \notin DOMAIN heap
    BY <1>2, <1>3 DEF Fresh
  <1> QED
    BY <1>2, <1>4, NullIsNoBlock

\* A root block put in the constructor's hands.
LEMMA MallocStays ==
  ASSUME NEW hp, NEW trk, HeapOK(hp, trk, None), NEW f \in Nat \ {0}, f \notin DOMAIN hp,
         NEW content, BlockForm(content), content.class \in Classes, PartsOf(content) = {},
         NEW new, new = [b \in DOMAIN hp \cup {f} |-> IF b = f THEN content ELSE hp[b]],
         NEW mk \in Makings, mk.block = f,
         mk.need = "items" => content.class = "list",
         mk.need = "entries" => content.class = "lambda"
  PROVE  HeapOK(new, trk, mk)
  <1>1. /\ BlocksForm(hp) /\ PartsOwned(hp) /\ TrackOK(hp, trk) /\ RootsOwned(hp, trk, None)
    BY DEF HeapOK
  <1>2. DOMAIN new = DOMAIN hp \cup {f} /\ new[f] = content /\ \A b \in DOMAIN hp : new[b] = hp[b]
    OBVIOUS
  <1>3. BlocksForm(new)
    <2>1. IsFiniteSet(DOMAIN hp \cup {f})
      BY <1>1, FS_AddElement DEF BlocksForm
    <2> QED
      BY <1>1, <1>2, <2>1 DEF BlocksForm
  <1>4. PartsOwned(new)
    <2>1. \A b \in DOMAIN new : \A p \in PartsOf(new[b]) : p \in DOMAIN new /\ new[p].class = "entries"
      BY <1>1, <1>2 DEF PartsOwned
    <2>2. \A b, c \in DOMAIN new : \A p \in PartsOf(new[b]) : p \in PartsOf(new[c]) => b = c
      BY <1>1, <1>2 DEF PartsOwned
    <2>3. ASSUME NEW p \in DOMAIN new, new[p].class = "entries" PROVE \E b \in DOMAIN new : p \in PartsOf(new[b])
      <3>1. p # f
        BY <1>2, <2>3, FormFacts
      <3>2. p \in DOMAIN hp /\ hp[p].class = "entries"
        BY <1>2, <2>3, <3>1
      <3>3. PICK b \in DOMAIN hp : p \in PartsOf(hp[b])
        BY <1>1, <3>2 DEF PartsOwned
      <3> QED
        BY <1>2, <3>3
    <2> QED
      BY <2>1, <2>2, <2>3 DEF PartsOwned
  <1>5. TrackOK(new, trk)
    <2>1. ASSUME NEW class \in Classes PROVE TrackedOnce(new, trk[class], class)
      <3>1. TrackedOnce(hp, trk[class], class)
        BY <1>1 DEF TrackOK
      <3> QED
        BY <1>2, <3>1 DEF TrackedOnce
    <2> QED
      BY <1>1, <2>1 DEF TrackOK
  <1>6. ASSUME NEW class \in Classes PROVE ~ IsTracked(trk, class, f)
    <2>1. TrackedOnce(hp, trk[class], class)
      BY <1>1 DEF TrackOK
    <2> QED
      BY <2>1 DEF TrackedOnce, IsTracked
  <1>7. MakingOK(new, trk, mk)
    BY <1>2, <1>6 DEF MakingOK
  <1>8. RootsOwned(new, trk, mk)
    <2>1. mk # None
      BY NullIsNoBlock
    <2>2. ASSUME NEW b \in DOMAIN new, new[b].class \in Classes
          PROVE  IsTracked(trk, new[b].class, b) \/ mk.block = b
      BY <1>1, <1>2, <2>2 DEF RootsOwned
    <2> QED
      BY <2>1, <2>2 DEF RootsOwned
  <1> QED
    BY <1>3, <1>4, <1>5, <1>7, <1>8 DEF HeapOK

\* What a block holds changes, not what it owns.
Refilled(hp, new) ==
  /\ DOMAIN new = DOMAIN hp
  /\ \A b \in DOMAIN hp : /\ BlockForm(new[b]) /\ new[b].class = hp[b].class
                          /\ PartsOf(new[b]) = PartsOf(hp[b])

LEMMA RefilledStays ==
  ASSUME NEW hp, NEW trk, NEW mk, HeapOK(hp, trk, mk), NEW new, Refilled(hp, new)
  PROVE  HeapOK(new, trk, mk)
  <1>1. /\ BlocksForm(hp) /\ PartsOwned(hp) /\ TrackOK(hp, trk) /\ MakingOK(hp, trk, mk)
        /\ RootsOwned(hp, trk, mk)
    BY DEF HeapOK
  <1>2. DOMAIN new = DOMAIN hp
        /\ \A b \in DOMAIN hp : new[b].class = hp[b].class /\ PartsOf(new[b]) = PartsOf(hp[b])
    BY DEF Refilled
  <1>3. BlocksForm(new)
    BY <1>1 DEF BlocksForm, Refilled
  <1>4. PartsOwned(new)
    BY <1>1, <1>2 DEF PartsOwned
  <1>5. TrackOK(new, trk)
    <2>1. ASSUME NEW class \in Classes PROVE TrackedOnce(new, trk[class], class)
      <3>1. TrackedOnce(hp, trk[class], class)
        BY <1>1 DEF TrackOK
      <3> QED
        BY <1>2, <3>1 DEF TrackedOnce
    <2> QED
      BY <1>1, <2>1 DEF TrackOK
  <1>6. MakingOK(new, trk, mk)
    BY <1>1, <1>2 DEF MakingOK
  <1>7. RootsOwned(new, trk, mk)
    BY <1>1, <1>2 DEF RootsOwned
  <1> QED
    BY <1>3, <1>4, <1>5, <1>6, <1>7 DEF HeapOK

LEMMA NextNeed ==
  ASSUME NEW hp, NEW trk, NEW mk, mk # None, HeapOK(hp, trk, mk),
         NEW new \in Makings, new.block = mk.block, new.need = "track"
  PROVE  HeapOK(hp, trk, new)
  <1>1. new # None
    BY NullIsNoBlock
  <1>2. MakingOK(hp, trk, new)
    BY DEF HeapOK, MakingOK
  <1>3. RootsOwned(hp, trk, new)
    BY <1>1 DEF HeapOK, RootsOwned
  <1> QED
    BY <1>2, <1>3 DEF HeapOK

NeedsTrack(new, mk) == new = [mk EXCEPT !.need = "track"]

LEMMA TrackNext ==
  ASSUME NEW mk \in Makings, NEW new, NeedsTrack(new, mk)
  PROVE  new \in Makings /\ new.block = mk.block /\ new.need = "track" /\ new.array = mk.array /\ new.from = mk.from
  <1>1. /\ mk = [block |-> mk.block, need |-> mk.need, array |-> mk.array, from |-> mk.from]
        /\ mk.block \in Nat /\ mk.array \in Nat /\ mk.from \in Nat
    BY DEF Makings
  <1>2. new = [block |-> mk.block, need |-> "track", array |-> mk.array, from |-> mk.from]
    BY <1>1 DEF NeedsTrack
  <1> QED
    BY <1>1, <1>2 DEF Makings

WithEntries(lambda, block, f) == lambda = [block EXCEPT !.entries = f]
WithFormals(new, hp, f, formals, b, lambda) ==
  new = [x \in DOMAIN hp \cup {f} |-> IF x = f THEN formals ELSE IF x = b THEN lambda ELSE hp[x]]

\* The array of formals allocated for the lambda being made.
GivesEntries(hp, mk, b, f, formals, lambda, new, mk2) ==
  /\ mk # None /\ mk.need = "entries" /\ b = mk.block
  /\ f \in Nat \ {0} /\ f \notin DOMAIN hp
  /\ BlockForm(formals) /\ formals.class = "entries"
  /\ WithEntries(lambda, hp[b], f) /\ WithFormals(new, hp, f, formals, b, lambda)
  /\ mk2 \in Makings /\ mk2.block = b /\ mk2.need = "track"

LEMMA EntriesStay ==
  ASSUME NEW hp, NEW trk, NEW mk, HeapOK(hp, trk, mk), NEW b, NEW f, NEW formals, NEW lambda,
         NEW new, NEW mk2, GivesEntries(hp, mk, b, f, formals, lambda, new, mk2)
  PROVE  HeapOK(new, trk, mk2) /\ lambda.class = "lambda" /\ hp[b].class = "lambda"
  <1> USE DEF GivesEntries
  <1>1. /\ BlocksForm(hp) /\ PartsOwned(hp) /\ TrackOK(hp, trk) /\ MakingOK(hp, trk, mk)
        /\ RootsOwned(hp, trk, mk)
    BY DEF HeapOK
  <1>2. mk \in Makings /\ b \in DOMAIN hp /\ hp[b].class = "lambda" /\ PartsOf(hp[b]) = {}
    BY <1>1 DEF MakingOK
  <1>3. BlockForm(hp[b])
    BY <1>1, <1>2 DEF BlocksForm
  <1>4. lambda = [class |-> "lambda", env |-> hp[b].env, entries |-> f, count |-> hp[b].count]
        /\ hp[b].count \in Nat
    BY <1>2, <1>3 DEF BlockForm, WithEntries
  <1>5. /\ lambda.class = "lambda" /\ lambda.entries = f
        /\ BlockForm(lambda)
    BY <1>4 DEF BlockForm
  <1>6. PartsOf(lambda) = {f}
    BY <1>5, NullIsNoBlock DEF PartsOf
  <1>7. DOMAIN new = DOMAIN hp \cup {f} /\ new[f] = formals /\ new[b] = lambda /\ b # f
        /\ \A x \in DOMAIN hp : x # b => new[x] = hp[x]
    BY <1>2 DEF WithFormals
  <1>8. \A x \in DOMAIN hp : new[x].class = hp[x].class
    BY <1>2, <1>5, <1>7
  <1>9. PartsOf(formals) = {}
    BY FormFacts
  <1>10. BlocksForm(new)
    <2>1. IsFiniteSet(DOMAIN hp \cup {f})
      BY <1>1, FS_AddElement DEF BlocksForm
    <2> QED
      BY <1>1, <1>5, <1>7, <2>1 DEF BlocksForm
  <1>11. \A x \in DOMAIN hp : \A p \in PartsOf(hp[x]) : p \in DOMAIN hp /\ hp[p].class = "entries" /\ p # f
    BY <1>1 DEF PartsOwned
  <1>12. \A x \in DOMAIN new : x \in DOMAIN hp \/ x = f
    BY <1>7
  <1>13. PartsOwned(new)
    <2>1. ASSUME NEW x \in DOMAIN new, NEW p \in PartsOf(new[x]) PROVE p \in DOMAIN new /\ new[p].class = "entries"
      <3>1. CASE x = f
        BY <1>7, <1>9, <2>1, <3>1
      <3>2. CASE x = b
        <4>1. p = f
          BY <1>6, <1>7, <2>1, <3>2
        <4> QED
          BY <1>7, <4>1
      <3>3. CASE x # f /\ x # b
        <4>1. x \in DOMAIN hp /\ p \in PartsOf(hp[x])
          BY <1>7, <1>12, <2>1, <3>3
        <4> QED
          BY <1>7, <1>8, <1>11, <4>1
      <3> QED
        BY <3>1, <3>2, <3>3
    <2>2. ASSUME NEW x \in DOMAIN new, NEW y \in DOMAIN new, NEW p \in PartsOf(new[x]), p \in PartsOf(new[y])
          PROVE  x = y
      <3>1. x # f /\ y # f
        BY <1>7, <1>9, <2>2
      <3>2. x \in DOMAIN hp /\ y \in DOMAIN hp
        BY <1>12, <3>1
      <3>3. CASE p = f
        <4>1. x = b
          BY <1>7, <1>11, <2>2, <3>2, <3>3
        <4>2. y = b
          BY <1>7, <1>11, <2>2, <3>2, <3>3
        <4> QED
          BY <4>1, <4>2
      <3>4. CASE p # f
        <4>1. x # b /\ y # b
          BY <1>6, <1>7, <2>2, <3>4
        <4>2. p \in PartsOf(hp[x]) /\ p \in PartsOf(hp[y])
          BY <1>7, <2>2, <3>2, <4>1
        <4> QED
          BY <1>1, <3>2, <4>2 DEF PartsOwned
      <3> QED
        BY <3>3, <3>4
    <2>3. ASSUME NEW p \in DOMAIN new, new[p].class = "entries" PROVE \E x \in DOMAIN new : p \in PartsOf(new[x])
      <3>1. CASE p = f
        BY <1>2, <1>6, <1>7, <3>1
      <3>2. CASE p # f
        <4>1. p \in DOMAIN hp /\ hp[p].class = "entries"
          BY <1>8, <1>12, <2>3, <3>2
        <4>2. PICK x \in DOMAIN hp : p \in PartsOf(hp[x])
          BY <1>1, <4>1 DEF PartsOwned
        <4>3. x # b
          BY <1>2, <4>2
        <4> QED
          BY <1>7, <4>2, <4>3
      <3> QED
        BY <3>1, <3>2
    <2> QED
      BY <2>1, <2>2, <2>3 DEF PartsOwned
  <1>14. TrackOK(new, trk)
    <2>1. ASSUME NEW class \in Classes PROVE TrackedOnce(new, trk[class], class)
      <3>1. TrackedOnce(hp, trk[class], class)
        BY <1>1 DEF TrackOK
      <3> QED
        BY <1>7, <1>8, <3>1 DEF TrackedOnce
    <2> QED
      BY <1>1, <2>1 DEF TrackOK
  <1>15. MakingOK(new, trk, mk2)
    BY <1>1, <1>2, <1>7, <1>8 DEF MakingOK
  <1>16. RootsOwned(new, trk, mk2)
    <2>1. ASSUME NEW x \in DOMAIN new, new[x].class \in Classes
          PROVE  IsTracked(trk, new[x].class, x) \/ (mk2 # None /\ mk2.block = x)
      <3>1. x # f
        BY <1>7, <2>1, FormFacts
      <3>2. x \in DOMAIN hp /\ new[x].class = hp[x].class
        BY <1>8, <1>12, <3>1
      <3>3. IsTracked(trk, hp[x].class, x) \/ mk.block = x
        BY <1>1, <2>1, <3>2 DEF RootsOwned
      <3> QED
        BY <3>2, <3>3, NullIsNoBlock
    <2> QED
      BY <2>1 DEF RootsOwned
  <1> QED
    BY <1>2, <1>5, <1>10, <1>13, <1>14, <1>15, <1>16 DEF HeapOK

Extends(t, blocks, b, cap) == t = [blocks |-> Append(blocks, b), cap |-> cap]

\* Tracked at last.
GetsTracked(hp, trk, mk, b, class, cap, t, new) ==
  /\ mk # None /\ b = mk.block /\ class = hp[b].class
  /\ cap \in Nat /\ Len(trk[class].blocks) + 1 <= cap
  /\ Extends(t, trk[class].blocks, b, cap) /\ PutAt(new, trk, class, t)

LEMMA TrackedStays ==
  ASSUME NEW hp, NEW trk, NEW mk, HeapOK(hp, trk, mk), NEW b, NEW class, NEW cap, NEW t, NEW new,
         GetsTracked(hp, trk, mk, b, class, cap, t, new)
  PROVE  /\ HeapOK(hp, new, None)
         /\ \A other \in Classes : \A x : IsTracked(trk, other, x) => IsTracked(new, other, x)
         /\ IsTracked(new, class, b)
  <1> USE DEF GetsTracked
  <1>1. /\ BlocksForm(hp) /\ PartsOwned(hp) /\ TrackOK(hp, trk) /\ MakingOK(hp, trk, mk)
        /\ RootsOwned(hp, trk, mk)
    BY DEF HeapOK
  <1>2. /\ b \in DOMAIN hp /\ class \in Classes /\ ~ IsTracked(trk, class, b)
        /\ trk = [c \in Classes |-> trk[c]]
    BY <1>1 DEF MakingOK, TrackOK
  <1>3. new = [c \in Classes |-> new[c]] /\ new[class] = t /\ \A c \in Classes : c # class => new[c] = trk[c]
    BY <1>2 DEF PutAt
  <1>4. PICK s, n : s = trk[class].blocks /\ n = Len(s)
    OBVIOUS
  <1>5. /\ IsSeq(s) /\ n \in Nat
        /\ \A i \in 1 .. n : s[i] \in DOMAIN hp /\ hp[s[i]].class = class
        /\ \A i, j \in 1 .. n : s[i] = s[j] => i = j
    <2>1. TrackedOnce(hp, trk[class], class)
      BY <1>1, <1>2 DEF TrackOK
    <2>2. IsSeq(s) /\ n \in Nat
      BY <1>4, <2>1 DEF TrackedOnce, IsSeq
    <2> QED
      BY <1>4, <2>1, <2>2 DEF TrackedOnce
  <1>6. PICK u : u = Append(s, b)
    OBVIOUS
  <1>7. IsSeq(u) /\ Len(u) = n + 1 /\ (\A i \in 1 .. n : u[i] = s[i]) /\ u[n + 1] = b
    <2>1. PICK e : e = b
      OBVIOUS
    <2>2. u = Append(s, e)
      BY <1>6, <2>1
    <2>3. /\ IsSeq(Append(s, e)) /\ Len(Append(s, e)) = Len(s) + 1
          /\ (\A i \in 1 .. Len(s) : Append(s, e)[i] = s[i]) /\ Append(s, e)[Len(s) + 1] = e
      BY <1>5, AppendFacts
    <2> QED
      BY <1>4, <2>1, <2>2, <2>3
  <1>8. t = [blocks |-> u, cap |-> cap] /\ t.blocks = u /\ t.cap = cap
    BY <1>4, <1>6 DEF Extends
  <1>9. \A i \in 1 .. n : s[i] # b
    BY <1>2, <1>4 DEF IsTracked
  <1>10. \A i \in 1 .. n + 1 : i = n + 1 \/ i \in 1 .. n
    BY <1>5
  <1>11. TrackedOnce(hp, t, class)
    <2>1. \A i \in 1 .. n + 1 : u[i] \in DOMAIN hp /\ hp[u[i]].class = class
      BY <1>2, <1>5, <1>7, <1>10
    <2>2. \A i, j \in 1 .. n + 1 : u[i] = u[j] => i = j
      BY <1>5, <1>7, <1>9, <1>10
    <2>3. n + 1 <= cap
      BY <1>4
    <2> QED
      BY <1>7, <1>8, <2>1, <2>2, <2>3 DEF TrackedOnce
  <1>12. TrackOK(hp, new)
    <2>1. ASSUME NEW c \in Classes PROVE TrackedOnce(hp, new[c], c)
      BY <1>1, <1>3, <1>11 DEF TrackOK
    <2> QED
      BY <1>3, <2>1 DEF TrackOK
  <1>13. IsTracked(new, class, b)
    <2>1. n + 1 \in 1 .. n + 1
      BY <1>5
    <2> QED
      BY <1>3, <1>7, <1>8, <2>1 DEF IsTracked
  <1>14. ASSUME NEW other \in Classes, NEW x, IsTracked(trk, other, x) PROVE IsTracked(new, other, x)
    <2>1. CASE other # class
      BY <1>3, <1>14, <2>1 DEF IsTracked
    <2>2. CASE other = class
      <3>1. PICK i \in 1 .. n : s[i] = x
        BY <1>4, <1>14, <2>2 DEF IsTracked
      <3>2. i \in 1 .. n + 1 /\ u[i] = x
        BY <1>5, <1>7, <3>1
      <3> QED
        BY <1>3, <1>7, <1>8, <2>2, <3>2 DEF IsTracked
    <2> QED
      BY <2>1, <2>2
  <1>15. RootsOwned(hp, new, None)
    <2>1. ASSUME NEW x \in DOMAIN hp, hp[x].class \in Classes PROVE IsTracked(new, hp[x].class, x)
      <3>1. CASE x = b
        BY <1>13, <3>1
      <3>2. CASE x # b
        <4>1. IsTracked(trk, hp[x].class, x)
          BY <1>1, <2>1, <3>2 DEF RootsOwned
        <4> QED
          BY <1>14, <2>1, <4>1
      <3> QED
        BY <3>1, <3>2
    <2> QED
      BY <2>1 DEF RootsOwned
  <1> QED
    BY <1>1, <1>12, <1>13, <1>14, <1>15 DEF HeapOK, MakingOK

\* Refused: the block and its parts are freed.
LEMMA RefusedFrees ==
  ASSUME NEW hp, NEW trk, NEW mk, mk # None, HeapOK(hp, trk, mk), NEW b, b = mk.block,
         NEW new, new = [x \in DOMAIN hp \ ({b} \cup PartsOf(hp[b])) |-> hp[x]]
  PROVE  /\ HeapOK(new, trk, None)
         /\ \A class \in Classes : \A x : IsTracked(trk, class, x) => x \in DOMAIN new /\ new[x] = hp[x]
  <1>1. /\ BlocksForm(hp) /\ PartsOwned(hp) /\ TrackOK(hp, trk) /\ MakingOK(hp, trk, mk)
        /\ RootsOwned(hp, trk, mk)
    BY DEF HeapOK
  <1>2. PICK gone : gone = {b} \cup PartsOf(hp[b])
    OBVIOUS
  <1>3. DOMAIN new = DOMAIN hp \ gone /\ \A x \in DOMAIN new : new[x] = hp[x]
    BY <1>2
  <1>4. b \in DOMAIN hp /\ hp[b].class \in Classes /\ ~ IsTracked(trk, hp[b].class, b)
    BY <1>1 DEF MakingOK
  <1>5. \A p \in PartsOf(hp[b]) : p \in DOMAIN hp /\ hp[p].class = "entries"
    BY <1>1, <1>4 DEF PartsOwned
  <1>6. "entries" \notin Classes
    BY DEF Classes
  <1>7. \A x \in DOMAIN hp : hp[x].class \in Classes /\ x # b => x \in DOMAIN new
    BY <1>2, <1>3, <1>5, <1>6
  <1>8. ASSUME NEW class \in Classes, NEW x, IsTracked(trk, class, x)
        PROVE  x \in DOMAIN new /\ new[x] = hp[x] /\ hp[x].class = class
    <2>1. TrackedOnce(hp, trk[class], class)
      BY <1>1 DEF TrackOK
    <2>2. x \in DOMAIN hp /\ hp[x].class = class
      BY <1>8, <2>1 DEF TrackedOnce, IsTracked
    <2>3. x # b
      BY <1>4, <1>8, <2>2
    <2> QED
      BY <1>3, <1>7, <2>2, <2>3
  <1>9. BlocksForm(new)
    <2>1. IsFiniteSet(DOMAIN hp) /\ DOMAIN new \subseteq DOMAIN hp
      BY <1>1, <1>3 DEF BlocksForm
    <2>2. IsFiniteSet(DOMAIN new)
      BY <2>1, FS_Subset
    <2> QED
      BY <1>1, <1>3, <2>1, <2>2 DEF BlocksForm
  <1>10. PartsOwned(new)
    <2>1. ASSUME NEW x \in DOMAIN new, NEW p \in PartsOf(new[x]) PROVE p \in DOMAIN new /\ new[p].class = "entries"
      <3>1. x \in DOMAIN hp /\ new[x] = hp[x] /\ x # b
        BY <1>2, <1>3
      <3>2. p \in DOMAIN hp /\ hp[p].class = "entries"
        BY <1>1, <2>1, <3>1 DEF PartsOwned
      <3>3. p \notin PartsOf(hp[b])
        BY <1>1, <1>4, <2>1, <3>1 DEF PartsOwned
      <3>4. p # b
        BY <1>4, <1>6, <3>2
      <3> QED
        BY <1>2, <1>3, <3>2, <3>3, <3>4
    <2>2. \A x, y \in DOMAIN new : \A p \in PartsOf(new[x]) : p \in PartsOf(new[y]) => x = y
      BY <1>1, <1>3 DEF PartsOwned
    <2>3. ASSUME NEW p \in DOMAIN new, new[p].class = "entries" PROVE \E x \in DOMAIN new : p \in PartsOf(new[x])
      <3>1. p \in DOMAIN hp /\ hp[p].class = "entries" /\ p \notin PartsOf(hp[b])
        BY <1>2, <1>3, <2>3
      <3>2. PICK x \in DOMAIN hp : p \in PartsOf(hp[x])
        BY <1>1, <3>1 DEF PartsOwned
      <3>3. x # b
        BY <3>1, <3>2
      <3>4. x \notin PartsOf(hp[b])
        <4>1. SUFFICES ASSUME x \in PartsOf(hp[b]) PROVE FALSE
          OBVIOUS
        <4>2. hp[x].class = "entries" /\ BlockForm(hp[x])
          BY <1>1, <1>5, <3>2, <4>1 DEF BlocksForm
        <4> QED
          BY <3>2, <4>2, FormFacts
      <3> QED
        BY <1>2, <1>3, <3>2, <3>3, <3>4
    <2> QED
      BY <2>1, <2>2, <2>3 DEF PartsOwned
  <1>11. TrackOK(new, trk)
    <2>1. ASSUME NEW class \in Classes PROVE TrackedOnce(new, trk[class], class)
      <3>1. TrackedOnce(hp, trk[class], class)
        BY <1>1 DEF TrackOK
      <3>2. \A i \in 1 .. Len(trk[class].blocks) : IsTracked(trk, class, trk[class].blocks[i])
        BY DEF IsTracked
      <3>3. \A i \in 1 .. Len(trk[class].blocks) :
              trk[class].blocks[i] \in DOMAIN new /\ new[trk[class].blocks[i]].class = class
        BY <1>8, <3>2
      <3> QED
        BY <3>1, <3>3 DEF TrackedOnce
    <2> QED
      BY <1>1, <2>1 DEF TrackOK
  <1>12. RootsOwned(new, trk, None)
    BY <1>1, <1>2, <1>3 DEF RootsOwned
  <1> QED
    BY <1>8, <1>9, <1>10, <1>11, <1>12 DEF HeapOK, MakingOK

-----------------------------------------------------------------------------
(* Lists over the arrays.                                                   *)

\* A list's header over what is left of an array.
OverArray(block, arrs, a, from) ==
  /\ block.class = "list" /\ block.count \in Nat
  /\ a \in 1 .. Len(arrs) /\ from \in Nat
  /\ from + block.count = Len(arrs[a].words)
  /\ block.items = Address(arrs[a].at.ptr[1], arrs[a].at.ptr[2] + from)
ListHolds(hp, arrs, b, a, from) == b \in DOMAIN hp /\ OverArray(hp[b], arrs, a, from)

MadeList(hp, mk, arrs) ==
  mk # None /\ hp[mk.block].class = "list" =>
    IF mk.need = "items" THEN mk.from = 0 ELSE ListHolds(hp, arrs, mk.block, mk.array, mk.from)
ListsOK(hp, trk, ls, arrs) ==
  /\ IsSeq(ls)
  /\ \A l \in 1 .. Len(ls) : /\ IsTracked(trk, "list", ls[l].list)
                             /\ ListHolds(hp, arrs, ls[l].list, ls[l].array, ls[l].from)

ObjectsOK ==
  /\ HeapOK(heap, tracked, making)
  /\ MadeList(heap, making, arrays) /\ ListsOK(heap, tracked, lists, arrays)

LEMMA HoldsOn ==
  ASSUME NEW block, NEW arrs, NEW a, NEW from, OverArray(block, arrs, a, from),
         NEW arrs2, ArraysStay(arrs, arrs2)
  PROVE  OverArray(block, arrs2, a, from)
  <1>1. a \in 1 .. Len(arrs) /\ Len(arrs) \in Nat /\ Len(arrs2) \in Nat /\ Len(arrs) <= Len(arrs2)
    BY DEF OverArray, ArraysStay, IsSeq
  <1>2. a \in 1 .. Len(arrs2) /\ arrs2[a].at = arrs[a].at /\ Len(arrs2[a].words) = Len(arrs[a].words)
    BY <1>1 DEF ArraysStay
  <1> QED
    BY <1>2 DEF OverArray

TrackGrows(trk, new) == \A b : IsTracked(trk, "list", b) => IsTracked(new, "list", b)

LEMMA ListsOn ==
  ASSUME NEW hp, NEW trk, NEW ls, NEW arrs, ListsOK(hp, trk, ls, arrs),
         NEW new, NEW trk2, NEW arrs2, ArraysStay(arrs, arrs2), TrackGrows(trk, trk2),
         \A b : IsTracked(trk, "list", b) => b \in DOMAIN new /\ new[b] = hp[b]
  PROVE  ListsOK(new, trk2, ls, arrs2)
  <1>1. ASSUME NEW l \in 1 .. Len(ls)
        PROVE  /\ IsTracked(trk2, "list", ls[l].list)
               /\ ListHolds(new, arrs2, ls[l].list, ls[l].array, ls[l].from)
    <2>1. PICK b, a, from : b = ls[l].list /\ a = ls[l].array /\ from = ls[l].from
      OBVIOUS
    <2>2. IsTracked(trk, "list", b) /\ ListHolds(hp, arrs, b, a, from)
      BY <2>1 DEF ListsOK
    <2>3. b \in DOMAIN new /\ new[b] = hp[b] /\ IsTracked(trk2, "list", b)
      BY <2>2 DEF TrackGrows
    <2>4. OverArray(hp[b], arrs, a, from)
      BY <2>2 DEF ListHolds
    <2>5. OverArray(hp[b], arrs2, a, from)
      BY <2>4, HoldsOn
    <2> QED
      BY <2>1, <2>3, <2>5 DEF ListHolds
  <1> QED
    BY <1>1 DEF ListsOK

LEMMA TrackedLists ==
  ASSUME NEW hp, NEW trk, NEW mk, HeapOK(hp, trk, mk)
  PROVE  \A b : IsTracked(trk, "list", b) => b \in DOMAIN hp /\ hp[b].class = "list"
  <1>1. "list" \in Classes
    BY DEF Classes
  <1>2. TrackedOnce(hp, trk["list"], "list")
    BY <1>1 DEF HeapOK, TrackOK
  <1> QED
    BY <1>2 DEF TrackedOnce, IsTracked

LEMMA ArraysSame ==
  ASSUME Memory
  PROVE  ArraysStay(arrays, arrays)
  <1>1. Len(arrays) <= Len(arrays)
    BY MemoryFacts
  <1> QED
    BY <1>1, MemoryFacts DEF ArraysStay

LEMMA ObjectsFacts ==
  ASSUME ObjectsOK
  PROVE  /\ HeapOK(heap, tracked, making) /\ MadeList(heap, making, arrays)
         /\ ListsOK(heap, tracked, lists, arrays)
         /\ BlocksForm(heap) /\ TrackOK(heap, tracked) /\ MakingOK(heap, tracked, making)
         /\ \A b \in DOMAIN heap : BlockForm(heap[b])
  BY DEF ObjectsOK, HeapOK, BlocksForm

\* The memory below changes and the objects do not.
LEMMA ObjectsKept ==
  ASSUME ObjectsOK, ArraysStay(arrays, arrays'), UNCHANGED objectVars
  PROVE  ObjectsOK'
  <1>1. heap' = heap /\ tracked' = tracked /\ making' = making /\ lists' = lists
    BY DEF objectVars
  <1>2. HeapOK(heap, tracked, making) /\ MadeList(heap, making, arrays)
        /\ ListsOK(heap, tracked, lists, arrays)
    BY ObjectsFacts
  <1>3. MadeList(heap, making, arrays')
    <2>1. SUFFICES ASSUME making # None, heap[making.block].class = "list"
                   PROVE  IF making.need = "items" THEN making.from = 0
                          ELSE ListHolds(heap, arrays', making.block, making.array, making.from)
      BY DEF MadeList
    <2>2. PICK b, a, from : b = making.block /\ a = making.array /\ from = making.from
      OBVIOUS
    <2>3. IF making.need = "items" THEN from = 0 ELSE b \in DOMAIN heap /\ OverArray(heap[b], arrays, a, from)
      BY <1>2, <2>1, <2>2 DEF MadeList, ListHolds
    <2>4. OverArray(heap[b], arrays, a, from) => OverArray(heap[b], arrays', a, from)
      BY HoldsOn
    <2> QED
      BY <2>2, <2>3, <2>4 DEF ListHolds
  <1>4. ListsOK(heap, tracked, lists, arrays')
    <2>1. TrackGrows(tracked, tracked)
      BY DEF TrackGrows
    <2>2. \A b : IsTracked(tracked, "list", b) => b \in DOMAIN heap /\ heap[b] = heap[b]
      BY <1>2, TrackedLists
    <2> QED
      BY <1>2, <2>1, <2>2, ListsOn
  <1> QED
    BY <1>1, <1>2, <1>3, <1>4 DEF ObjectsOK

LEMMA StartStep ==
  ASSUME Memory, ObjectsOK, NEW content, BlockForm(content), content.class \in Classes, PartsOf(content) = {},
         NEW need \in {"items", "entries", "track"}, NEW array \in Nat, NEW from \in Nat,
         Start(content, need, array, from),
         need = "items" => content.class = "list" /\ from = 0,
         need = "entries" => content.class = "lambda",
         content.class = "list" /\ need # "items" => OverArray(content, arrays, array, from)
  PROVE  Memory' /\ ObjectsOK'
  <1>1. PICK f, mk : f = Fresh /\ mk = [block |-> f, need |-> need, array |-> array, from |-> from]
    OBVIOUS
  <1>2. /\ making = None /\ making' = mk /\ tracked' = tracked /\ lists' = lists
        /\ heap' = [b \in DOMAIN heap \cup {f} |-> IF b = f THEN content ELSE heap[b]]
        /\ UNCHANGED envVars
    BY <1>1 DEF Start, malloc
  <1>3. HeapOK(heap, tracked, None) /\ ListsOK(heap, tracked, lists, arrays) /\ BlocksForm(heap)
    BY <1>2, ObjectsFacts
  <1>4. f \notin DOMAIN heap /\ f \in Nat \ {0}
    BY <1>1, <1>3, FreshFacts
  <1>5. /\ mk \in Makings /\ mk.block = f /\ mk.need = need /\ mk.array = array /\ mk.from = from
    BY <1>1, <1>4 DEF Makings
  <1>6. PICK new : new = [b \in DOMAIN heap \cup {f} |-> IF b = f THEN content ELSE heap[b]]
    OBVIOUS
  <1>7. HeapOK(new, tracked, mk)
    BY <1>3, <1>4, <1>5, <1>6, MallocStays
  <1>8. f \in DOMAIN new /\ new[f] = content /\ \A b \in DOMAIN heap : b \in DOMAIN new /\ new[b] = heap[b]
    BY <1>4, <1>6
  <1>9. MadeList(new, mk, arrays)
    BY <1>5, <1>8 DEF MadeList, ListHolds
  <1>10. ListsOK(new, tracked, lists, arrays)
    <2>1. TrackGrows(tracked, tracked)
      BY DEF TrackGrows
    <2>2. \A b : IsTracked(tracked, "list", b) => b \in DOMAIN new /\ new[b] = heap[b]
      BY <1>3, <1>8, TrackedLists
    <2> QED
      BY <1>3, <2>1, <2>2, ArraysSame, ListsOn
  <1>11. Memory'
    BY <1>2 DEF Memory, envVars
  <1> QED
    BY <1>2, <1>6, <1>7, <1>9, <1>10, <1>11 DEF ObjectsOK, envVars

LEMMA ListNewStep ==
  ASSUME Memory, ObjectsOK, NEW n \in Nat, nn_list_new(n)
  PROVE  Memory' /\ ObjectsOK'
  <1>1. PICK content : content = [class |-> "list", items |-> None, count |-> n]
    OBVIOUS
  <1>2. content.class = "list" /\ BlockForm(content) /\ PartsOf(content) = {} /\ content.class \in Classes
    BY <1>1 DEF BlockForm, PartsOf, Classes
  <1>3. Start(content, "items", 0, 0)
    BY <1>1 DEF nn_list_new
  <1> QED
    BY <1>2, <1>3, StartStep

LEMMA CtxStep ==
  ASSUME Memory, ObjectsOK, NEW n \in Nat, nn_ctxstr_new(n)
  PROVE  Memory' /\ ObjectsOK'
  <1>1. PICK content : content = [class |-> "ctxstr", ctx |-> [i \in 1 .. n |-> None]]
    OBVIOUS
  <1>2. content.class = "ctxstr" /\ BlockForm(content) /\ PartsOf(content) = {} /\ content.class \in Classes
    BY <1>1 DEF BlockForm, PartsOf, Classes
  <1>3. Start(content, "track", 0, 0)
    BY <1>1 DEF nn_ctxstr_new
  <1> QED
    BY <1>2, <1>3, StartStep

LEMMA LambdaStep ==
  ASSUME Memory, ObjectsOK, NEW env, NEW n \in Nat, nn_lambda_new(env, n)
  PROVE  Memory' /\ ObjectsOK'
  <1>1. PICK content, need : /\ content = [class |-> "lambda", env |-> envs[env].at, entries |-> None, count |-> n]
                             /\ need = IF n = 0 THEN "track" ELSE "entries"
    OBVIOUS
  <1>2. content.class = "lambda" /\ BlockForm(content) /\ PartsOf(content) = {} /\ content.class \in Classes
    BY <1>1 DEF BlockForm, PartsOf, Classes
  <1>3. Start(content, need, 0, 0) /\ need \in {"entries", "track"}
    BY <1>1 DEF nn_lambda_new
  <1> QED
    BY <1>2, <1>3, StartStep

LEMMA DropStep ==
  ASSUME Memory, ObjectsOK, NEW l \in 1 .. Len(lists), NEW n \in Nat, nn_list_drop(l, n)
  PROVE  Memory' /\ ObjectsOK'
  <1>1. PICK list, a, from, at : /\ list = heap[lists[l].list] /\ a = lists[l].array /\ from = lists[l].from
                                 /\ at = arrays[a].at
    OBVIOUS
  <1>2. OverArray(list, arrays, a, from)
    BY <1>1, ObjectsFacts DEF ListsOK, ListHolds
  <1>3. PICK content : content = [class |-> "list", items |-> Address(list.items.ptr[1], list.items.ptr[2] + n),
                                  count |-> list.count - n]
    OBVIOUS
  <1>4. n < list.count /\ Start(content, "track", a, from + n)
    BY <1>1, <1>3 DEF nn_list_drop
  <1>5. /\ list.count \in Nat /\ a \in 1 .. Len(arrays) /\ from \in Nat
        /\ from + list.count = Len(arrays[a].words)
        /\ list.items = Address(at.ptr[1], at.ptr[2] + from)
    BY <1>1, <1>2 DEF OverArray
  <1>6. at \in Addresses
    BY <1>1, <1>5, ArrayReads
  <1>7. PICK p, w : p = at.ptr[1] /\ w = at.ptr[2] /\ p \in Nat /\ w \in Nat
    BY <1>6, AddressParts
  <1>8. list.items.ptr[1] = p /\ list.items.ptr[2] = w + from
    <2>1. PICK s : s = w + from /\ s \in Nat
      BY <1>5, <1>7
    <2>2. list.items = Address(p, s)
      BY <1>5, <1>7, <2>1
    <2> QED
      BY <1>7, <2>1, <2>2, AddressFacts
  <1>9. (w + from) + n = w + (from + n) /\ list.count - n \in Nat /\ from + n \in Nat
        /\ (from + n) + (list.count - n) = from + list.count
    <2>1. PICK m : m = list.count /\ m \in Nat /\ n < m
      BY <1>4, <1>5
    <2>2. from \in Nat /\ w \in Nat
      BY <1>5, <1>7
    <2>3. (w + from) + n = w + (from + n) /\ m - n \in Nat /\ from + n \in Nat
          /\ (from + n) + (m - n) = from + m
      BY <2>1, <2>2
    <2> QED
      BY <2>1, <2>3
  <1>10. /\ content.class = "list" /\ content.count = list.count - n
         /\ content.items = Address(p, w + (from + n))
    BY <1>3, <1>8, <1>9
  <1>11. BlockForm(content) /\ PartsOf(content) = {} /\ content.class \in Classes
    BY <1>3, <1>9, <1>10 DEF BlockForm, PartsOf, Classes
  <1>12. PICK from2 : from2 = from + n
    OBVIOUS
  <1>13. OverArray(content, arrays, a, from2)
    BY <1>1, <1>5, <1>7, <1>9, <1>10, <1>12 DEF OverArray
  <1>14. a \in Nat /\ from2 \in Nat /\ Start(content, "track", a, from2)
    BY <1>4, <1>5, <1>9, <1>12
  <1> QED
    BY <1>10, <1>11, <1>13, <1>14, StartStep

LEMMA EntriesStep ==
  ASSUME Memory, ObjectsOK, LambdaEntries
  PROVE  Memory' /\ ObjectsOK'
  <1>1. PICK b, f, formals, lambda, new, mk :
          /\ b = making.block /\ f = Fresh
          /\ formals = [class |-> "entries", words |-> [i \in 1 .. heap[b].count |-> None]]
          /\ lambda = [heap[b] EXCEPT !.entries = f]
          /\ new = [x \in DOMAIN heap \cup {f} |-> IF x = f THEN formals ELSE IF x = b THEN lambda ELSE heap[x]]
          /\ mk = [making EXCEPT !.need = "track"]
    OBVIOUS
  <1>2. /\ making # None /\ making.need = "entries"
        /\ heap' = new /\ making' = mk /\ tracked' = tracked /\ lists' = lists
        /\ UNCHANGED envVars
    BY <1>1 DEF LambdaEntries, Making
  <1>3. HeapOK(heap, tracked, making) /\ ListsOK(heap, tracked, lists, arrays) /\ BlocksForm(heap)
    BY ObjectsFacts
  <1>4. f \notin DOMAIN heap /\ f \in Nat \ {0}
    BY <1>1, <1>3, FreshFacts
  <1>5. formals.class = "entries" /\ BlockForm(formals)
    BY <1>1 DEF BlockForm
  <1>6. making \in Makings /\ b \in DOMAIN heap
    BY <1>1, <1>2, ObjectsFacts DEF MakingOK
  <1>7. mk \in Makings /\ mk.block = b /\ mk.need = "track"
    <2>1. NeedsTrack(mk, making)
      BY <1>1 DEF NeedsTrack
    <2> QED
      BY <1>1, <1>6, <2>1, TrackNext
  <1>8. HeapOK(new, tracked, mk) /\ lambda.class = "lambda" /\ heap[b].class = "lambda"
    <2>1. WithEntries(lambda, heap[b], f) /\ WithFormals(new, heap, f, formals, b, lambda)
      BY <1>1 DEF WithEntries, WithFormals
    <2>2. b = making.block
      BY <1>1
    <2>3. GivesEntries(heap, making, b, f, formals, lambda, new, mk)
      BY <1>2, <1>4, <1>5, <1>7, <2>1, <2>2 DEF GivesEntries
    <2> QED
      BY <1>3, <2>3, EntriesStay
  <1>9. new[b] = lambda /\ \A x \in DOMAIN heap : x # b => x \in DOMAIN new /\ new[x] = heap[x]
    BY <1>1, <1>4, <1>6
  <1>10. MadeList(new, mk, arrays)
    BY <1>7, <1>8, <1>9 DEF MadeList
  <1>11. ListsOK(new, tracked, lists, arrays)
    <2>1. TrackGrows(tracked, tracked)
      BY DEF TrackGrows
    <2>2. ASSUME NEW x, IsTracked(tracked, "list", x) PROVE x \in DOMAIN new /\ new[x] = heap[x]
      <3>1. x \in DOMAIN heap /\ heap[x].class = "list"
        BY <1>3, <2>2, TrackedLists
      <3> QED
        BY <1>8, <1>9, <3>1
    <2> QED
      BY <1>3, <2>1, <2>2, ArraysSame, ListsOn
  <1>12. Memory'
    BY <1>2 DEF Memory, envVars
  <1> QED
    BY <1>2, <1>8, <1>10, <1>11, <1>12 DEF ObjectsOK, envVars

NeedsTrackOf(new, mk, a) == new = [mk EXCEPT !.need = "track", !.array = a]

LEMMA ItemsNext ==
  ASSUME NEW mk \in Makings, NEW a \in Nat, NEW new, NeedsTrackOf(new, mk, a)
  PROVE  new \in Makings /\ new.block = mk.block /\ new.need = "track" /\ new.array = a /\ new.from = mk.from
  <1>1. /\ mk = [block |-> mk.block, need |-> mk.need, array |-> mk.array, from |-> mk.from]
        /\ mk.block \in Nat /\ mk.array \in Nat /\ mk.from \in Nat
    BY DEF Makings
  <1>2. new = [block |-> mk.block, need |-> "track", array |-> a, from |-> mk.from]
    BY <1>1 DEF NeedsTrackOf
  <1> QED
    BY <1>1, <1>2 DEF Makings

LEMMA ItemsStep ==
  ASSUME Memory, ObjectsOK, ListItems
  PROVE  Memory' /\ ObjectsOK'
  <1>1. PICK b, n, none, mk, a : /\ b = making.block /\ n = heap[b].count
                                 /\ none = [i \in 1 .. n |-> None] /\ a = Len(arrays) + 1
                                 /\ mk = [making EXCEPT !.need = "track", !.array = a]
    OBVIOUS
  <1>2. /\ making # None /\ making.need = "items" /\ Made < MaxMade
        /\ making' = mk /\ tracked' = tracked /\ lists' = lists /\ envs' = envs
    BY <1>1 DEF ListItems, Making
  <1>3. PICK got \in AllocWords(pages, n) :
          /\ got.at # None
          /\ pages' = got.pages
          /\ arrays' = Append(arrays, [at |-> got.at, words |-> none])
          /\ heap' = [heap EXCEPT ![b].items = got.at]
    BY <1>1 DEF ListItems
  <1>4. HeapOK(heap, tracked, making) /\ ListsOK(heap, tracked, lists, arrays) /\ MadeList(heap, making, arrays)
    BY ObjectsFacts
  <1>5. making \in Makings /\ b \in DOMAIN heap /\ heap[b].class = "list"
    BY <1>1, <1>2, ObjectsFacts DEF MakingOK
  <1>6. BlockForm(heap[b])
    BY <1>5, ObjectsFacts
  <1>7. n \in Nat /\ heap[b] = [class |-> "list", items |-> heap[b].items, count |-> n]
    BY <1>1, <1>5, <1>6 DEF BlockForm
  <1>8. making.from = 0
    BY <1>1, <1>2, <1>4, <1>5 DEF MadeList
  <1>9. PICK y, mid, header, new, array, arrs :
          /\ y = got.at /\ mid = got.pages
          /\ header = [class |-> "list", items |-> y, count |-> n]
          /\ new = [heap EXCEPT ![b] = header]
          /\ array = [at |-> y, words |-> none] /\ arrs = Append(arrays, array)
    OBVIOUS
  <1>10. heap' = new
    <2>1. [heap[b] EXCEPT !.items = y] = header
      BY <1>7, <1>9
    <2> QED
      BY <1>3, <1>9, <2>1
  <1>11. Granted(pages, mid, y, n)
    BY <1>3, <1>7, <1>9, MemoryFacts, AllocWordsFacts
  <1>12. Landed(pages, mid, y, none) /\ IsSeq(none) /\ Len(none) = n
    BY <1>1, <1>7, <1>11, LandedNone
  <1>13. MemoryOK(mid, arrs, envs) /\ ArraysStay(arrays, arrs) /\ y \in Addresses
    BY <1>2, <1>9, <1>12, MemoryFacts, ArrayAdded
  <1>14. Memory'
    BY <1>2, <1>3, <1>9, <1>13 DEF Memory
  <1>15. header.class = "list" /\ header.count = n /\ header.items = y /\ BlockForm(header) /\ PartsOf(header) = {}
    BY <1>7, <1>9 DEF BlockForm, PartsOf
  <1>16. DOMAIN new = DOMAIN heap /\ new[b] = header /\ \A x \in DOMAIN heap : x # b => new[x] = heap[x]
    BY <1>5, <1>9
  <1>17. Refilled(heap, new)
    <2>1. PartsOf(heap[b]) = {}
      BY <1>5 DEF PartsOf
    <2>2. \A x \in DOMAIN heap : BlockForm(heap[x])
      BY ObjectsFacts
    <2> QED
      BY <1>5, <1>15, <1>16, <2>1, <2>2 DEF Refilled
  <1>18. HeapOK(new, tracked, making)
    BY <1>4, <1>17, RefilledStays
  <1>19. a \in Nat /\ mk \in Makings /\ mk.block = b /\ mk.need = "track" /\ mk.array = a /\ mk.from = 0
    <2>1. a \in Nat
      BY <1>1, MemoryFacts
    <2>2. NeedsTrackOf(mk, making, a)
      BY <1>1 DEF NeedsTrackOf
    <2> QED
      BY <1>1, <1>5, <1>8, <2>1, <2>2, ItemsNext
  <1>20. HeapOK(new, tracked, mk)
    BY <1>1, <1>2, <1>18, <1>19, NextNeed
  <1>21. OverArray(header, arrs, a, 0)
    <2>1. /\ Len(arrs) = a /\ arrs[a] = array /\ a \in 1 .. Len(arrs)
      BY <1>1, <1>9, AppendFacts, MemoryFacts
    <2>2. array.at = y /\ array.words = none
      BY <1>9
    <2>3. PICK p, w : p = y.ptr[1] /\ w = y.ptr[2] /\ w \in Nat /\ y = Address(p, w)
      BY <1>13, AddressParts
    <2>4. w + 0 = w /\ 0 + n = n
      BY <1>7, <2>3
    <2> QED
      BY <1>7, <1>12, <1>15, <2>1, <2>2, <2>3, <2>4 DEF OverArray
  <1>22. MadeList(new, mk, arrs)
    BY <1>5, <1>16, <1>19, <1>21 DEF MadeList, ListHolds
  <1>23. ListsOK(new, tracked, lists, arrs)
    <2>1. TrackGrows(tracked, tracked)
      BY DEF TrackGrows
    <2>2. ASSUME NEW x, IsTracked(tracked, "list", x) PROVE x \in DOMAIN new /\ new[x] = heap[x]
      <3>1. x \in DOMAIN heap
        BY <1>4, <2>2, TrackedLists
      <3>2. x # b
        BY <1>1, <1>2, <1>5, <2>2, ObjectsFacts DEF MakingOK
      <3> QED
        BY <1>16, <3>1, <3>2
    <2> QED
      BY <1>4, <1>13, <2>1, <2>2, ListsOn
  <1>24. arrays' = arrs
    BY <1>3, <1>9
  <1> QED
    BY <1>2, <1>10, <1>14, <1>20, <1>22, <1>23, <1>24 DEF ObjectsOK

LEMMA TrackStep ==
  ASSUME Memory, ObjectsOK, Track
  PROVE  Memory' /\ ObjectsOK'
  <1>1. PICK b, class, cap, s, n :
          /\ b = making.block /\ class = heap[b].class /\ s = tracked[class].blocks /\ n = Len(s)
          /\ cap = IF TrackFull(class) THEN IF tracked[class].cap = 0 THEN TrackCapacity ELSE 2 * tracked[class].cap
                   ELSE tracked[class].cap
    OBVIOUS
  <1>2. PICK t, new : t = [blocks |-> Append(s, b), cap |-> cap] /\ new = [tracked EXCEPT ![class] = t]
    OBVIOUS
  <1>3. /\ making # None /\ making.need = "track" /\ making' = None /\ heap' = heap
        /\ UNCHANGED envVars
    BY DEF Track, Making
  <1>4. lists' = IF class # "list" THEN lists
                 ELSE Append(lists, [list |-> b, array |-> making.array, from |-> making.from])
    BY <1>1 DEF Track, ClassAt
  <1>5. HeapOK(heap, tracked, making) /\ ListsOK(heap, tracked, lists, arrays) /\ MadeList(heap, making, arrays)
        /\ TrackOK(heap, tracked)
    BY ObjectsFacts
  <1>6. class \in Classes /\ b \in DOMAIN heap
    BY <1>1, <1>3, ObjectsFacts DEF MakingOK
  <1>7. tracked' = new
    <2>1. tracked' = [tracked EXCEPT ![class] = [blocks |-> Append(tracked[class].blocks, b), cap |-> cap]]
      BY <1>1 DEF Track, ClassAt
    <2> QED
      BY <1>1, <1>2, <2>1
  <1>8. TrackedOnce(heap, tracked[class], class)
    BY <1>5, <1>6 DEF TrackOK
  <1>9. cap \in Nat /\ n + 1 <= cap
    <2>1. PICK old : old = tracked[class].cap /\ old \in Nat /\ n \in Nat /\ n <= old
      BY <1>1, <1>8 DEF TrackedOnce, IsSeq
    <2>2. TrackFull(class) <=> n >= old
      BY <1>1, <2>1 DEF TrackFull
    <2>3. TrackCapacity \in Nat \ {0}
      BY ObjectSizes
    <2>4. cap = IF n >= old THEN IF old = 0 THEN TrackCapacity ELSE 2 * old ELSE old
      BY <1>1, <2>1, <2>2
    <2> QED
      BY <2>1, <2>3, <2>4
  <1>10. /\ HeapOK(heap, new, None)
         /\ \A other \in Classes : \A x : IsTracked(tracked, other, x) => IsTracked(new, other, x)
         /\ IsTracked(new, class, b)
    <2>1. /\ Len(tracked[class].blocks) + 1 <= cap
          /\ Extends(t, tracked[class].blocks, b, cap) /\ PutAt(new, tracked, class, t)
      BY <1>1, <1>2, <1>9 DEF Extends, PutAt
    <2>2. b = making.block /\ class = heap[b].class /\ cap \in Nat
      BY <1>1, <1>9
    <2>3. GetsTracked(heap, tracked, making, b, class, cap, t, new)
      BY <1>3, <2>1, <2>2 DEF GetsTracked
    <2> QED
      BY <1>5, <2>3, TrackedStays
  <1>11. ListsOK(heap, new, lists, arrays)
    <2>1. TrackGrows(tracked, new)
      BY <1>10 DEF TrackGrows, Classes
    <2>2. \A x : IsTracked(tracked, "list", x) => x \in DOMAIN heap /\ heap[x] = heap[x]
      BY <1>5, TrackedLists
    <2> QED
      BY <1>5, <2>1, <2>2, ArraysSame, ListsOn
  <1>12. ListsOK(heap, new, lists', arrays)
    <2>1. CASE class # "list"
      BY <1>4, <1>11, <2>1
    <2>2. CASE class = "list"
      <3>1. PICK made, ls, m : /\ made = [list |-> b, array |-> making.array, from |-> making.from]
                               /\ ls = Append(lists, made) /\ m = Len(lists)
        OBVIOUS
      <3>2. ListHolds(heap, arrays, made.list, made.array, made.from) /\ IsTracked(new, "list", made.list)
        <4>1. made.list = b /\ made.array = making.array /\ made.from = making.from
          BY <3>1
        <4> QED
          BY <1>1, <1>3, <1>5, <1>10, <2>2, <4>1 DEF MadeList
      <3>3. IsSeq(lists) /\ m \in Nat
        BY <1>5, <3>1 DEF ListsOK, IsSeq
      <3>4. IsSeq(ls) /\ Len(ls) = m + 1 /\ (\A i \in 1 .. m : ls[i] = lists[i]) /\ ls[m + 1] = made
        BY <3>1, <3>3, AppendFacts
      <3>5. \A i \in 1 .. m + 1 : i = m + 1 \/ i \in 1 .. m
        BY <3>3
      <3>6. ListsOK(heap, new, ls, arrays)
        BY <1>11, <3>1, <3>2, <3>4, <3>5 DEF ListsOK
      <3> QED
        BY <1>4, <2>2, <3>1, <3>6
    <2> QED
      BY <2>1, <2>2
  <1>13. MadeList(heap, None, arrays)
    BY DEF MadeList
  <1>14. Memory'
    BY <1>3 DEF Memory, envVars
  <1> QED
    BY <1>3, <1>7, <1>10, <1>12, <1>13, <1>14 DEF ObjectsOK, envVars

LEMMA RefuseStep ==
  ASSUME Memory, ObjectsOK, Refuse
  PROVE  Memory' /\ ObjectsOK'
  <1>1. PICK b, new : b = making.block /\ new = [x \in DOMAIN heap \ ({b} \cup PartsOf(heap[b])) |-> heap[x]]
    OBVIOUS
  <1>2. /\ making # None /\ making' = None /\ heap' = new /\ tracked' = tracked /\ lists' = lists
        /\ UNCHANGED envVars
    BY <1>1 DEF Refuse, free, BlocksOf, EntriesOf, PartsOf
  <1>3. HeapOK(heap, tracked, making) /\ ListsOK(heap, tracked, lists, arrays)
    BY ObjectsFacts
  <1>4. /\ HeapOK(new, tracked, None)
        /\ \A class \in Classes : \A x : IsTracked(tracked, class, x) => x \in DOMAIN new /\ new[x] = heap[x]
    BY <1>1, <1>2, <1>3, RefusedFrees
  <1>5. ListsOK(new, tracked, lists, arrays)
    <2>1. TrackGrows(tracked, tracked)
      BY DEF TrackGrows
    <2>2. \A x : IsTracked(tracked, "list", x) => x \in DOMAIN new /\ new[x] = heap[x]
      BY <1>4 DEF Classes
    <2> QED
      BY <1>3, <2>1, <2>2, ArraysSame, ListsOn
  <1>6. MadeList(new, None, arrays)
    BY DEF MadeList
  <1>7. Memory'
    BY <1>2 DEF Memory, envVars
  <1> QED
    BY <1>2, <1>4, <1>5, <1>6, <1>7 DEF ObjectsOK, envVars

LEMMA ListSetStep ==
  ASSUME Memory, ObjectsOK, NEW l \in 1 .. Len(lists), nn_list_set(l)
  PROVE  Memory' /\ ObjectsOK'
  <1>1. PICK a : a = lists[l].array
    OBVIOUS
  <1>2. UNCHANGED objectVars /\ fillCSlots(a)
    BY <1>1 DEF nn_list_set
  <1>3. a \in 1 .. Len(arrays)
    BY <1>1, ObjectsFacts DEF ListsOK, ListHolds, OverArray
  <1>4. Memory' /\ ArraysStay(arrays, arrays')
    BY <1>2, <1>3, FillStep
  <1> QED
    BY <1>2, <1>4, ObjectsKept

\* A block that is no list is filled.
LEMMA SetStep ==
  ASSUME Memory, ObjectsOK, NEW b \in DOMAIN heap, heap[b].class # "list",
         NEW block, BlockForm(block), block.class = heap[b].class, PartsOf(block) = PartsOf(heap[b]),
         heap' = [heap EXCEPT ![b] = block], UNCHANGED <<tracked, making, lists, envVars>>
  PROVE  Memory' /\ ObjectsOK'
  <1>1. PICK new : new = [heap EXCEPT ![b] = block]
    OBVIOUS
  <1>2. DOMAIN new = DOMAIN heap /\ new[b] = block /\ \A x \in DOMAIN heap : x # b => new[x] = heap[x]
    BY <1>1
  <1>3. HeapOK(heap, tracked, making) /\ ListsOK(heap, tracked, lists, arrays) /\ MadeList(heap, making, arrays)
    BY ObjectsFacts
  <1>4. Refilled(heap, new)
    <2>1. \A x \in DOMAIN heap : BlockForm(heap[x])
      BY ObjectsFacts
    <2> QED
      BY <1>2, <2>1 DEF Refilled
  <1>5. HeapOK(new, tracked, making)
    BY <1>3, <1>4, RefilledStays
  <1>6. MadeList(new, making, arrays)
    <2>1. SUFFICES ASSUME making # None, new[making.block].class = "list"
                   PROVE  IF making.need = "items" THEN making.from = 0
                          ELSE ListHolds(new, arrays, making.block, making.array, making.from)
      BY DEF MadeList
    <2>2. making.block \in DOMAIN heap
      BY <2>1, ObjectsFacts DEF MakingOK
    <2>3. new[making.block] = heap[making.block]
      BY <1>2, <2>1, <2>2
    <2> QED
      BY <1>2, <1>3, <2>1, <2>2, <2>3 DEF MadeList, ListHolds
  <1>7. ListsOK(new, tracked, lists, arrays)
    <2>1. TrackGrows(tracked, tracked)
      BY DEF TrackGrows
    <2>2. \A x : IsTracked(tracked, "list", x) => x \in DOMAIN new /\ new[x] = heap[x]
      BY <1>2, <1>3, TrackedLists
    <2> QED
      BY <1>3, <2>1, <2>2, ArraysSame, ListsOn
  <1>8. Memory'
    BY DEF Memory, envVars
  <1>9. heap' = new /\ tracked' = tracked /\ making' = making /\ lists' = lists /\ arrays' = arrays
    BY <1>1 DEF envVars
  <1> QED
    BY <1>5, <1>6, <1>7, <1>8, <1>9 DEF ObjectsOK

LEMMA TrackedIs ==
  ASSUME ObjectsOK, NEW class \in Classes, NEW b \in TrackedBlocks(class)
  PROVE  b \in DOMAIN heap /\ heap[b].class = class
  <1>1. PICK s : s = tracked[class].blocks
    OBVIOUS
  <1>2. TrackedOnce(heap, tracked[class], class)
    BY ObjectsFacts DEF TrackOK
  <1>3. IsSeq(s) /\ \A i \in 1 .. Len(s) : s[i] \in DOMAIN heap /\ heap[s[i]].class = class
    BY <1>1, <1>2 DEF TrackedOnce
  <1>4. PICK i \in DOMAIN s : b = s[i]
    BY <1>1 DEF TrackedBlocks, Range
  <1>5. i \in 1 .. Len(s)
    BY <1>3, <1>4 DEF IsSeq
  <1> QED
    BY <1>3, <1>4, <1>5

LEMMA SetEntryStep ==
  ASSUME Memory, ObjectsOK, NEW b \in TrackedBlocks("lambda"), NEW i, nn_lambda_set_entry(b, i)
  PROVE  Memory' /\ ObjectsOK'
  <1>1. b \in DOMAIN heap /\ heap[b].class = "lambda"
    BY TrackedIs DEF Classes
  <1>2. PICK p : p = heap[b].entries /\ p # None
    BY DEF nn_lambda_set_entry
  <1>3. p \in PartsOf(heap[b])
    BY <1>1, <1>2 DEF PartsOf
  <1>4. p \in DOMAIN heap /\ heap[p].class = "entries"
    BY <1>1, <1>3, ObjectsFacts DEF HeapOK, PartsOwned
  <1>5. BlockForm(heap[p])
    BY <1>4, ObjectsFacts
  <1>6. heap[p] = [class |-> "entries", words |-> heap[p].words]
    BY <1>4, <1>5 DEF BlockForm
  <1>7. PICK words, block : /\ words = [heap[p].words EXCEPT ![i] = [entry |-> i]]
                            /\ block = [class |-> "entries", words |-> words]
    OBVIOUS
  <1>8. heap' = [heap EXCEPT ![p] = block] /\ UNCHANGED <<tracked, making, lists, envVars>>
    <2>1. heap' = [heap EXCEPT ![p] = [heap[p] EXCEPT !.words = words]]
      BY <1>2, <1>7 DEF nn_lambda_set_entry
    <2>2. [heap[p] EXCEPT !.words = words] = block
      BY <1>6, <1>7
    <2> QED
      BY <2>1, <2>2 DEF nn_lambda_set_entry
  <1>9. /\ block.class = "entries" /\ BlockForm(block)
        /\ PartsOf(block) = {} /\ PartsOf(heap[p]) = {}
    BY <1>4, <1>7 DEF BlockForm, PartsOf
  <1> QED
    BY <1>4, <1>8, <1>9, SetStep

LEMMA SetCtxStep ==
  ASSUME Memory, ObjectsOK, NEW b \in TrackedBlocks("ctxstr"), NEW i, nn_ctxstr_set(b, i)
  PROVE  Memory' /\ ObjectsOK'
  <1>1. b \in DOMAIN heap /\ heap[b].class = "ctxstr"
    BY TrackedIs DEF Classes
  <1>2. BlockForm(heap[b])
    BY <1>1, ObjectsFacts
  <1>3. heap[b] = [class |-> "ctxstr", ctx |-> heap[b].ctx]
    BY <1>1, <1>2 DEF BlockForm
  <1>4. PICK ctx, block : /\ ctx = [heap[b].ctx EXCEPT ![i] = [element |-> i]]
                          /\ block = [class |-> "ctxstr", ctx |-> ctx]
    OBVIOUS
  <1>5. heap' = [heap EXCEPT ![b] = block] /\ UNCHANGED <<tracked, making, lists, envVars>>
    <2>1. heap' = [heap EXCEPT ![b] = [heap[b] EXCEPT !.ctx = ctx]]
      BY <1>4 DEF nn_ctxstr_set
    <2>2. [heap[b] EXCEPT !.ctx = ctx] = block
      BY <1>3, <1>4
    <2> QED
      BY <2>1, <2>2 DEF nn_ctxstr_set
  <1>6. /\ block.class = "ctxstr" /\ BlockForm(block)
        /\ PartsOf(block) = {} /\ PartsOf(heap[b]) = {}
    BY <1>1, <1>4 DEF BlockForm, PartsOf
  <1> QED
    BY <1>1, <1>5, <1>6, SetStep

LEMMA ObjectsStep ==
  ASSUME Memory, ObjectsOK, ObjectsNext
  PROVE  Memory' /\ ObjectsOK'
  <1>1. ListLengths \subseteq Nat /\ EntryCounts \subseteq Nat
    BY ObjectSizes
  <1>2. CASE \E n \in ListLengths : nn_list_new(n)
    BY <1>1, <1>2, ListNewStep
  <1>3. CASE \E l \in 1 .. Len(lists) : \E n \in ListLengths : Filled(l) /\ nn_list_drop(l, n)
    BY <1>1, <1>3, DropStep
  <1>4. CASE \E n \in EntryCounts : nn_ctxstr_new(n)
    BY <1>1, <1>4, CtxStep
  <1>5. CASE \E n \in EntryCounts : nn_lambda_new(Len(envs), n)
    <2>1. PICK e : e = Len(envs)
      OBVIOUS
    <2>2. PICK n \in Nat : nn_lambda_new(e, n)
      BY <1>1, <1>5, <2>1
    <2> QED
      BY <2>2, LambdaStep
  <1>6. CASE LambdaEntries
    BY <1>6, EntriesStep
  <1>7. CASE ListItems
    BY <1>7, ItemsStep
  <1>8. CASE Track
    BY <1>8, TrackStep
  <1>9. CASE Refuse
    BY <1>9, RefuseStep
  <1>10. CASE \E l \in 1 .. Len(lists) : nn_list_set(l)
    BY <1>10, ListSetStep
  <1>11. CASE \E i \in EntryCounts \ {0} : \E b \in TrackedBlocks("lambda") : nn_lambda_set_entry(b, i)
    BY <1>11, SetEntryStep
  <1>12. CASE \E i \in EntryCounts \ {0} : \E b \in TrackedBlocks("ctxstr") : nn_ctxstr_set(b, i)
    BY <1>12, SetCtxStep
  <1> QED
    BY <1>2, <1>3, <1>4, <1>5, <1>6, <1>7, <1>8, <1>9, <1>10, <1>11, <1>12 DEF ObjectsNext

-----------------------------------------------------------------------------
(* What the properties say of that state.                                   *)

\* What a block owns is owned by no other root.
LEMMA RootsApart ==
  ASSUME ObjectsOK, NEW b \in DOMAIN heap, heap[b].class \in Classes,
         NEW c \in DOMAIN heap, heap[c].class \in Classes, b # c
  PROVE  BlocksOf(b) \cap BlocksOf(c) = {}
  <1>1. PartsOwned(heap)
    BY ObjectsFacts DEF HeapOK
  <1>2. BlocksOf(b) = {b} \cup PartsOf(heap[b]) /\ BlocksOf(c) = {c} \cup PartsOf(heap[c])
    BY DEF BlocksOf, EntriesOf, PartsOf
  <1>3. "entries" \notin Classes
    BY DEF Classes
  <1>4. b \notin PartsOf(heap[c]) /\ c \notin PartsOf(heap[b])
    BY <1>1, <1>3 DEF PartsOwned
  <1>5. PartsOf(heap[b]) \cap PartsOf(heap[c]) = {}
    BY <1>1 DEF PartsOwned
  <1> QED
    BY <1>2, <1>4, <1>5

\* Every block is a root or belongs to one.
LEMMA RootsOf ==
  ASSUME ObjectsOK, NEW x \in DOMAIN heap
  PROVE  \E b \in DOMAIN heap :
           /\ heap[b].class \in Classes /\ x \in BlocksOf(b)
           /\ IsTracked(tracked, heap[b].class, b) \/ (making # None /\ making.block = b)
  <1>1. PartsOwned(heap) /\ RootsOwned(heap, tracked, making) /\ \A b \in DOMAIN heap : BlockForm(heap[b])
    BY ObjectsFacts DEF HeapOK
  <1>2. \A b \in DOMAIN heap : BlocksOf(b) = {b} \cup PartsOf(heap[b])
    BY DEF BlocksOf, EntriesOf, PartsOf
  <1>3. PICK b \in DOMAIN heap : heap[b].class \in Classes /\ x \in BlocksOf(b)
    <2>1. CASE heap[x].class \in Classes
      BY <1>2, <2>1
    <2>2. CASE heap[x].class = "entries"
      <3>1. PICK b \in DOMAIN heap : x \in PartsOf(heap[b])
        BY <1>1, <2>2 DEF PartsOwned
      <3>2. heap[b].class \in Classes
        BY <3>1 DEF PartsOf, Classes
      <3> QED
        BY <1>2, <3>1, <3>2
    <2> QED
      BY <1>1, <2>1, <2>2, FormFacts
  <1> QED
    BY <1>1, <1>3 DEF RootsOwned

LEMMA HeapIsAccounted == ObjectsOK => HeapAccounted
  <1>1. SUFFICES ASSUME ObjectsOK PROVE HeapAccounted
    OBVIOUS
  <1> DEFINE owners == (UNION {{<<c, i>> : i \in 1 .. Len(tracked[c].blocks)} : c \in Classes})
                       \cup (IF making = None THEN {} ELSE {<<"making", 1>>})
             Root(o) == IF o[1] = "making" THEN making.block ELSE tracked[o[1]].blocks[o[2]]
  <1>2. /\ TrackOK(heap, tracked) /\ MakingOK(heap, tracked, making)
    BY <1>1, ObjectsFacts
  <1>3. "making" \notin Classes
    BY DEF Classes
  <1>4. ASSUME NEW o \in owners
        PROVE  \/ \E c \in Classes : \E i \in 1 .. Len(tracked[c].blocks) :
                    o = <<c, i>> /\ Root(o) = tracked[c].blocks[i]
               \/ making # None /\ o = <<"making", 1>> /\ Root(o) = making.block
    <2>1. CASE \E c \in Classes : \E i \in 1 .. Len(tracked[c].blocks) : o = <<c, i>>
      <3>1. PICK c \in Classes : \E i \in 1 .. Len(tracked[c].blocks) : o = <<c, i>>
        BY <2>1
      <3>2. PICK i \in 1 .. Len(tracked[c].blocks) : o = <<c, i>>
        BY <3>1
      <3>3. o[1] = c /\ o[2] = i /\ c # "making"
        BY <1>3, <3>2
      <3> QED
        BY <3>2, <3>3
    <2>2. CASE making # None /\ o = <<"making", 1>>
      <3>1. o[1] = "making"
        BY <2>2
      <3> QED
        BY <2>2, <3>1
    <2> QED
      BY <2>1, <2>2
  <1>5. \A c \in Classes : /\ Len(tracked[c].blocks) <= tracked[c].cap
                           /\ \A i \in 1 .. Len(tracked[c].blocks) :
                                tracked[c].blocks[i] \in DOMAIN heap /\ heap[tracked[c].blocks[i]].class = c
                           /\ \A i, j \in 1 .. Len(tracked[c].blocks) :
                                tracked[c].blocks[i] = tracked[c].blocks[j] => i = j
    BY <1>2 DEF TrackOK, TrackedOnce
  <1>6. making # None => /\ making.block \in DOMAIN heap /\ heap[making.block].class \in Classes
                         /\ ~ IsTracked(tracked, heap[making.block].class, making.block)
    BY <1>2 DEF MakingOK
  <1>7. \A c \in Classes : \A i \in 1 .. Len(tracked[c].blocks) : IsTracked(tracked, c, tracked[c].blocks[i])
    BY DEF IsTracked
  <1>8. ASSUME NEW o \in owners PROVE Root(o) \in DOMAIN heap /\ heap[Root(o)].class \in Classes
    BY <1>4, <1>5, <1>6
  <1>9. ASSUME NEW o \in owners, NEW p \in owners, Root(o) = Root(p) PROVE o = p
    <2>1. CASE making # None /\ o = <<"making", 1>> /\ Root(o) = making.block
      <3>1. CASE making # None /\ p = <<"making", 1>>
        BY <2>1, <3>1
      <3>2. ASSUME NEW c \in Classes, NEW i \in 1 .. Len(tracked[c].blocks), Root(p) = tracked[c].blocks[i]
            PROVE  FALSE
        BY <1>5, <1>6, <1>7, <1>9, <2>1, <3>2
      <3> QED
        BY <1>4, <3>1, <3>2
    <2>2. ASSUME NEW c \in Classes, NEW i \in 1 .. Len(tracked[c].blocks),
                 o = <<c, i>>, Root(o) = tracked[c].blocks[i]
          PROVE  o = p
      <3>1. CASE making # None /\ Root(p) = making.block
        BY <1>5, <1>6, <1>7, <1>9, <2>2, <3>1
      <3>2. ASSUME NEW d \in Classes, NEW j \in 1 .. Len(tracked[d].blocks),
                   p = <<d, j>>, Root(p) = tracked[d].blocks[j]
            PROVE  o = p
        <4>1. c = d
          BY <1>5, <1>9, <2>2, <3>2
        <4> QED
          BY <1>5, <1>9, <2>2, <3>2, <4>1
      <3> QED
        BY <1>4, <3>1, <3>2
    <2> QED
      BY <1>4, <2>1, <2>2
  <1>10. ASSUME NEW b \in DOMAIN heap, heap[b].class \in Classes,
                IsTracked(tracked, heap[b].class, b) \/ (making # None /\ making.block = b)
         PROVE  \E o \in owners : Root(o) = b
    <2>1. CASE IsTracked(tracked, heap[b].class, b)
      <3>1. PICK c, i : /\ c = heap[b].class /\ c \in Classes
                         /\ i \in 1 .. Len(tracked[c].blocks) /\ tracked[c].blocks[i] = b
        BY <1>10, <2>1 DEF IsTracked
      <3>2. PICK o : o = <<c, i>>
        OBVIOUS
      <3>3. o \in owners /\ o[1] = c /\ o[2] = i /\ c # "making"
        BY <1>3, <3>1, <3>2
      <3> QED
        BY <3>1, <3>3
    <2>2. CASE making # None /\ making.block = b
      <3>1. PICK o : o = <<"making", 1>>
        OBVIOUS
      <3>2. o \in owners /\ o[1] = "making"
        BY <2>2, <3>1
      <3> QED
        BY <2>2, <3>2
    <2> QED
      BY <1>10, <2>1, <2>2
  <1>11. ASSUME NEW o \in owners PROVE BlocksOf(Root(o)) \subseteq DOMAIN heap
    <2>1. PICK b \in DOMAIN heap : b = Root(o)
      BY <1>8
    <2>2. BlocksOf(b) = {b} \cup PartsOf(heap[b])
      BY DEF BlocksOf, EntriesOf, PartsOf
    <2>3. PartsOwned(heap)
      BY <1>1, ObjectsFacts DEF HeapOK
    <2> QED
      BY <2>1, <2>2, <2>3 DEF PartsOwned
  <1>12. DOMAIN heap = UNION {BlocksOf(Root(o)) : o \in owners}
    <2>1. ASSUME NEW x \in DOMAIN heap PROVE \E o \in owners : x \in BlocksOf(Root(o))
      <3>1. PICK b \in DOMAIN heap :
              /\ heap[b].class \in Classes /\ x \in BlocksOf(b)
              /\ IsTracked(tracked, heap[b].class, b) \/ (making # None /\ making.block = b)
        BY <1>1, RootsOf
      <3> QED
        BY <1>10, <3>1
    <2> HIDE DEF owners, Root
    <2> QED
      BY <1>11, <2>1
  <1>13. \A o, p \in owners : o # p => BlocksOf(Root(o)) \cap BlocksOf(Root(p)) = {}
    <2>1. ASSUME NEW o \in owners, NEW p \in owners, o # p
          PROVE  BlocksOf(Root(o)) \cap BlocksOf(Root(p)) = {}
      <3>1. PICK b, c : b = Root(o) /\ c = Root(p)
        OBVIOUS
      <3>2. /\ b \in DOMAIN heap /\ heap[b].class \in Classes
            /\ c \in DOMAIN heap /\ heap[c].class \in Classes /\ b # c
        BY <1>8, <1>9, <2>1, <3>1
      <3>3. BlocksOf(b) \cap BlocksOf(c) = {}
        BY <1>1, <3>2, RootsApart
      <3> QED
        BY <3>1, <3>3
    <2> QED
      BY <2>1
  <1>14. \A c \in Classes : /\ Len(tracked[c].blocks) <= tracked[c].cap
                            /\ \A b \in TrackedBlocks(c) : heap[b].class = c
    BY <1>1, <1>5, TrackedIs
  <1> QED
    BY <1>12, <1>13, <1>14 DEF HeapAccounted

LEMMA ListReads ==
  ASSUME Memory, ObjectsOK, NEW l \in 1 .. Len(lists)
  PROVE  LET b == lists[l].list
             words == arrays[lists[l].array].words
         IN  /\ heap[b].count = Len(words) - lists[l].from
             /\ \A i \in 0 .. heap[b].count - 1 :
                  nn_list_get(b, i) = words[lists[l].from + i + 1]
  <1>1. PICK b, a, from, block, words, at :
          /\ b = lists[l].list /\ a = lists[l].array /\ from = lists[l].from
          /\ block = heap[b] /\ words = arrays[a].words /\ at = arrays[a].at
    OBVIOUS
  <1>2. OverArray(block, arrays, a, from)
    BY <1>1, ObjectsFacts DEF ListsOK, ListHolds
  <1>3. PICK n, m : /\ n = block.count /\ m = Len(words) /\ n \in Nat /\ from \in Nat
                    /\ from + n = m /\ block.items = Address(at.ptr[1], at.ptr[2] + from)
                    /\ a \in 1 .. Len(arrays)
    BY <1>1, <1>2 DEF OverArray
  <1>4. /\ at \in Addresses /\ m \in Nat
        /\ \A k \in 0 .. m - 1 : ReadWord(at, k) = words[k + 1]
    BY <1>1, <1>3, ArrayReads
  <1>5. PICK p, w : p = at.ptr[1] /\ w = at.ptr[2] /\ p \in Nat /\ w \in Nat
    BY <1>4, AddressParts
  <1>6. n = m - from /\ m = from + n
    <2>1. n \in Nat /\ m \in Nat /\ from \in Nat /\ from + n = m
      BY <1>3, <1>4
    <2> QED
      BY <2>1
  <1>7. ASSUME NEW i \in 0 .. n - 1 PROVE nn_list_get(b, i) = words[from + i + 1]
    <2>1. PICK s, k, u : s = w + from /\ k = from + i /\ u = s + i
      OBVIOUS
    <2>2. s \in Nat /\ k \in 0 .. m - 1 /\ u \in Nat /\ u + 0 = w + k /\ i \in Nat
      <3>1. n \in Nat /\ m \in Nat /\ from \in Nat /\ m = from + n
        BY <1>3, <1>4, <1>6
      <3>2. i \in Nat /\ i <= n - 1
        BY <1>7, <3>1
      <3>3. k \in 0 .. m - 1
        BY <2>1, <3>1, <3>2
      <3>4. w \in Nat
        BY <1>5
      <3>5. s \in Nat /\ u \in Nat /\ u + 0 = w + k
        BY <2>1, <3>1, <3>2, <3>4
      <3> QED
        BY <3>2, <3>3, <3>5
    <2>3. block.items = Address(p, s)
      BY <1>3, <1>5, <2>1
    <2>4. block.items.ptr[1] = p /\ block.items.ptr[2] = s
      BY <1>5, <2>2, <2>3, AddressFacts
    <2>5. PICK x : x = Address(p, u)
      OBVIOUS
    <2>6. x.ptr[1] = p /\ x.ptr[2] = u
      BY <1>5, <2>2, <2>5, AddressFacts
    <2>7. nn_list_get(b, i) = ReadWord(x, 0)
      BY <1>1, <2>1, <2>4, <2>5 DEF nn_list_get
    <2>8. ReadWord(x, 0) = ReadWord(at, k)
      BY <1>5, <2>2, <2>6 DEF ReadWord
    <2>9. ReadWord(at, k) = words[k + 1]
      BY <1>4, <2>2
    <2> QED
      BY <2>1, <2>7, <2>8, <2>9
  <1> QED
    BY <1>1, <1>3, <1>6, <1>7

LEMMA DataReads == Memory /\ ObjectsOK => ReadsBack
  BY MemoryReads, ListReads DEF ReadsBack

-----------------------------------------------------------------------------
(* The whole layer: opened, used and torn down.                             *)

NoMemory == phase = "unopened" => pages = << >>
DataInv == Memory /\ ObjectsOK /\ NoMemory

LEMMA NothingIsSeq == IsSeq(<< >>) /\ Len(<< >>) = 0
  <1>1. << >> \in Seq({}) /\ Len(<< >>) = 0
    OBVIOUS
  <1> QED
    BY <1>1, InSeq

\* Pages with nothing made of them yet.
LEMMA BareMemory ==
  ASSUME NEW pgs, PagesOK(pgs)
  PROVE  MemoryOK(pgs, << >>, <<TheEmptyEnv>>)
  <1>1. PICK v, es : v = TheEmptyEnv /\ es = <<v>>
    OBVIOUS
  <1>2. IsSeq(es) /\ Len(es) = 1 /\ es[1] = v
    <2>1. es \in Seq({v}) /\ Len(es) = 1 /\ es[1] = v
      BY <1>1
    <2> QED
      BY <2>1, InSeq
  <1>3. /\ v.at = EmptyEnv /\ v.slots = 0 /\ v.count = 0 /\ v.lazy = None
        /\ v.parent = 0 /\ v.withs = << >>
        /\ v = [at |-> v.at, slots |-> v.slots, count |-> v.count, lazy |-> v.lazy,
                parent |-> v.parent, withs |-> v.withs]
    BY <1>1 DEF TheEmptyEnv
  <1>4. EmptyEnv \in Addresses
    BY AddressFacts DEF EmptyEnv
  <1>5. EnvShape(<< >>, v, 1)
    BY <1>3, <1>4, NothingIsSeq DEF EnvShape
  <1>6. EnvPlaced(pgs, << >>, v, 1)
    BY <1>1 DEF EnvPlaced
  <1>7. EnvWords(pgs, << >>, es, v)
    BY <1>3, EmptyFetch, NothingIsSeq DEF EnvWords, AddressOf, CountWord
  <1>8. WithsLie(pgs, << >>, Fetch(pgs, v.at, 4), v.withs)
    BY <1>3, NoWiths
  <1>9. EnvOK(pgs, << >>, es, v, 1)
    BY <1>5, <1>6, <1>7, <1>8 DEF EnvOK
  <1>10. EnvsOK(pgs, << >>, es)
    BY <1>2, <1>9 DEF EnvsOK
  <1>11. ArraysOK(pgs, << >>)
    BY NothingIsSeq DEF ArraysOK
  <1>12. Len(<< >>) + Len(es) <= MaxMade + 1
    BY <1>2, NothingIsSeq, PageSizes
  <1> QED
    BY <1>1, <1>10, <1>11, <1>12 DEF MemoryOK

LEMMA FirstPage == PagesOK(<< >>) /\ PagesOK(<<alloc_page(PageWords)>>)
  <1>1. PagesOK(<< >>)
    BY NothingIsSeq DEF PagesOK
  <1>2. PICK page, words : words = NewBlock(PageWords, Junk) /\ page = [used |-> 0, data |-> words]
    OBVIOUS
  <1>3. PageOK(page)
    <2>1. DOMAIN words = 0 .. PageWords - 1 /\ PageWords \in Nat /\ PageWords <= MaxWords /\ 0 <= PageWords
      BY <1>2, PageSizes DEF NewBlock
    <2> QED
      BY <1>2, <2>1, PageIs
  <1>4. PICK s : s = <<page>>
    OBVIOUS
  <1>5. IsSeq(s) /\ Len(s) = 1 /\ s[1] = page
    <2>1. s \in Seq({page}) /\ Len(s) = 1 /\ s[1] = page
      BY <1>4
    <2> QED
      BY <2>1, InSeq
  <1>6. PagesOK(s)
    BY <1>3, <1>5 DEF PagesOK
  <1> QED
    BY <1>1, <1>2, <1>4, <1>6 DEF alloc_page

\* No page, no array.
LEMMA NoPagesNoArrays ==
  ASSUME Memory, pages = << >>
  PROVE  Len(arrays) = 0 /\ ArraysStay(arrays, << >>)
  <1>1. IsSeq(arrays) /\ Len(arrays) \in Nat
    BY MemoryFacts
  <1>2. ASSUME NEW a \in 1 .. Len(arrays) PROVE FALSE
    <2>1. Lies(pages, arrays[a].at, arrays[a].words)
      BY ArrayReads
    <2> QED
      BY <2>1, NothingIsSeq DEF Lies, Inside
  <1>3. Len(arrays) = 0
    <2>1. CASE Len(arrays) # 0
      <3>1. 1 \in 1 .. Len(arrays)
        BY <1>1, <2>1
      <3> QED
        BY <1>2, <3>1
    <2> QED
      BY <2>1
  <1> QED
    BY <1>1, <1>3, NothingIsSeq DEF ArraysStay

\* Nothing is allocated before the layer is open.
LEMMA NoPagesStay ==
  ASSUME Memory, ObjectsOK, pages = << >>, EnvNext \/ ObjectsNext
  PROVE  pages' = << >>
  <1>2. \A n : \A got \in AllocWords(pages, n) : got.at = None
    BY DEF AllocWords, nn_env_alloc_raw, Refused
  <1>3. ASSUME NEW words, NEW view, NewEnv(pages, words, view) PROVE pages' = pages
    <2>1. PICK got \in nn_env_alloc_raw(pages, StructWords) :
            IF got.at = None THEN pages' = pages /\ UNCHANGED envs
            ELSE /\ pages' = Written(got.pages, got.at, words)
                 /\ envs' = Append(envs, [view EXCEPT !.at = got.at])
      BY <1>3 DEF NewEnv
    <2>2. got.at = None
      BY DEF nn_env_alloc_raw, Refused
    <2> QED
      BY <2>1, <2>2
  <1>4. Len(arrays) = 0
    BY NoPagesNoArrays
  <1>5. CASE EnvNext
    <2>1. CASE \E n \in SlotCounts : nn_env_alloc_slots(n)
      BY <1>2, <2>1 DEF nn_env_alloc_slots
    <2>2. CASE \E a \in 1 .. Len(arrays) : fillCSlots(a)
      BY <1>4, <2>2
    <2>3. CASE \E env \in 1 .. Len(envs) :
                 \E level \in Levels : \E idx \in 0 .. 1 : CaptureSlot(env, level, idx)
      BY <1>2, <2>3 DEF CaptureSlot
    <2>4. ASSUME NEW a, nn_env_new_minimal(a) PROVE pages' = pages
      BY <1>3, <2>4 DEF nn_env_new_minimal
    <2>5. ASSUME NEW a, NEW env, nn_env_new(a, env) PROVE pages' = pages
      BY <1>3, <2>5 DEF nn_env_new
    <2>6. ASSUME NEW a, NEW env, nn_env_from_slots(a, env) PROVE pages' = pages
      BY <1>3, <2>6 DEF nn_env_from_slots
    <2>7. ASSUME NEW a, NEW env, TrimEnv(a, env) PROVE pages' = pages
      BY <1>2, <1>3, <2>7 DEF TrimEnv
    <2>8. ASSUME NEW env, nn_env_push_with(env) PROVE pages' = pages
      BY <1>2, <2>8 DEF nn_env_push_with
    <2> QED
      BY <1>5, <2>1, <2>2, <2>3, <2>4, <2>5, <2>6, <2>7, <2>8 DEF EnvNext
  <1>6. CASE ObjectsNext
    <2>1. CASE ListItems
      BY <1>2, <2>1 DEF ListItems
    <2>2. CASE \E l \in 1 .. Len(lists) : nn_list_set(l)
      <3>1. PICK l \in 1 .. Len(lists) : nn_list_set(l)
        BY <2>2
      <3>2. lists[l].array \in 1 .. Len(arrays)
        BY ObjectsFacts DEF ListsOK, ListHolds, OverArray
      <3> QED
        BY <1>4, <3>2
    <2>3. ASSUME NEW content, NEW need, NEW array, NEW from, Start(content, need, array, from)
          PROVE  pages' = pages
      BY <2>3 DEF Start, envVars
    <2>4. LambdaEntries \/ Track \/ Refuse => pages' = pages
      BY DEF LambdaEntries, Track, Refuse, envVars
    <2>5. \A b, i : nn_lambda_set_entry(b, i) \/ nn_ctxstr_set(b, i) => pages' = pages
      BY DEF nn_lambda_set_entry, nn_ctxstr_set, envVars
    <2>6. \A n : nn_list_new(n) \/ nn_ctxstr_new(n) => pages' = pages
      BY <2>3 DEF nn_list_new, nn_ctxstr_new
    <2>7. \A e, n : nn_lambda_new(e, n) => pages' = pages
      BY <2>3 DEF nn_lambda_new
    <2>8. \A l, n : nn_list_drop(l, n) => pages' = pages
      BY <2>3 DEF nn_list_drop
    <2> QED
      BY <1>6, <2>1, <2>2, <2>4, <2>5, <2>6, <2>7, <2>8 DEF ObjectsNext
  <1> QED
    BY <1>5, <1>6

\* No object is allocated.
LEMMA EmptyHeap ==
  ASSUME NEW hp, DOMAIN hp = {}, NEW arrs
  PROVE  /\ HeapOK(hp, NothingTracked, None) /\ MadeList(hp, None, arrs)
         /\ ListsOK(hp, NothingTracked, << >>, arrs)
  <1>1. BlocksForm(hp)
    BY FS_EmptySet DEF BlocksForm
  <1>2. PartsOwned(hp)
    BY DEF PartsOwned
  <1>3. TrackOK(hp, NothingTracked)
    <2>1. PICK t, trk : t = [blocks |-> << >>, cap |-> 0] /\ trk = NothingTracked
      OBVIOUS
    <2>2. trk = [class \in Classes |-> t]
      BY <2>1 DEF NothingTracked
    <2>3. ASSUME NEW class \in Classes PROVE TrackedOnce(hp, t, class)
      BY <2>1, NothingIsSeq DEF TrackedOnce
    <2> QED
      BY <2>1, <2>2, <2>3 DEF TrackOK
  <1>4. MakingOK(hp, NothingTracked, None) /\ RootsOwned(hp, NothingTracked, None)
    BY DEF MakingOK, RootsOwned
  <1>5. MadeList(hp, None, arrs)
    BY DEF MadeList
  <1>6. ListsOK(hp, NothingTracked, << >>, arrs)
    BY NothingIsSeq DEF ListsOK
  <1> QED
    BY <1>1, <1>2, <1>3, <1>4, <1>5, <1>6 DEF HeapOK

LEMMA InitData == Init => DataInv
  <1>1. SUFFICES ASSUME Init PROVE DataInv
    OBVIOUS
  <1>2. pages = << >> /\ arrays = << >> /\ envs = <<TheEmptyEnv>>
    BY <1>1 DEF Init, NoPages
  <1>3. Memory
    BY <1>2, FirstPage, BareMemory DEF Memory
  <1>4. heap = << >> /\ tracked = NothingTracked /\ making = None /\ lists = << >>
    BY <1>1 DEF Init, NoObjects
  <1>5. DOMAIN heap = {}
    BY <1>4
  <1>6. ObjectsOK
    BY <1>4, <1>5, EmptyHeap DEF ObjectsOK
  <1> QED
    BY <1>2, <1>3, <1>6 DEF DataInv, NoMemory

LEMMA OpenStep ==
  ASSUME DataInv, arenaInit
  PROVE  DataInv'
  <1>1. /\ pages = << >> /\ Memory /\ ObjectsOK /\ UNCHANGED objectVars
        /\ pages' = <<alloc_page(PageWords)>> /\ arrays' = << >> /\ envs' = <<TheEmptyEnv>>
        /\ phase' = "open"
    BY DEF DataInv, NoMemory, arenaInit, nn_env_init
  <1>2. MemoryOK(pages', arrays', envs')
    BY <1>1, FirstPage, BareMemory
  <1>3. ArraysStay(arrays, arrays')
    BY <1>1, NoPagesNoArrays
  <1>4. ObjectsOK'
    BY <1>1, <1>3, ObjectsKept
  <1> QED
    BY <1>1, <1>2, <1>4 DEF DataInv, NoMemory, Memory

\* What is tracked is everything that was not yet freed.
LEMMA CloseStep ==
  ASSUME DataInv, arenaDestroy
  PROVE  DataInv'
  <1>1. /\ ObjectsOK /\ making = None /\ making' = None /\ free_all
        /\ pages' = << >> /\ arrays' = << >> /\ envs' = <<TheEmptyEnv>>
        /\ phase' = "closed"
    BY DEF DataInv, arenaDestroy, nn_env_destroy
  <1> DEFINE roots == UNION {Range(tracked[c].blocks) : c \in Classes}
  <1>2. ASSUME NEW x \in DOMAIN heap PROVE \E b \in roots : x \in BlocksOf(b)
    <2>1. PICK b \in DOMAIN heap : /\ heap[b].class \in Classes /\ x \in BlocksOf(b)
                                   /\ IsTracked(tracked, heap[b].class, b)
      BY <1>1, RootsOf
    <2>2. PICK c, s : c = heap[b].class /\ s = tracked[c].blocks /\ c \in Classes
      BY <2>1
    <2>3. PICK i \in 1 .. Len(s) : s[i] = b
      BY <2>1, <2>2 DEF IsTracked
    <2>4. IsSeq(s)
      BY <1>1, <2>2, ObjectsFacts DEF TrackOK, TrackedOnce
    <2>5. b \in Range(s)
      BY <2>3, <2>4 DEF IsSeq, Range
    <2> QED
      BY <2>1, <2>2, <2>5
  <1>3. DOMAIN heap' = {}
    <2>1. heap' = [b \in DOMAIN heap \ UNION {BlocksOf(b) : b \in roots} |-> heap[b]]
      BY <1>1 DEF free_all, free
    <2> HIDE DEF roots
    <2> QED
      BY <1>2, <2>1
  <1>4. tracked' = NothingTracked /\ lists' = << >>
    BY <1>1 DEF free_all
  <1>5. ObjectsOK'
    BY <1>1, <1>3, <1>4, EmptyHeap DEF ObjectsOK
  <1>6. MemoryOK(pages', arrays', envs')
    BY <1>1, FirstPage, BareMemory
  <1> QED
    BY <1>1, <1>5, <1>6 DEF DataInv, NoMemory, Memory

LEMMA StepData == DataInv /\ [Next]_vars => DataInv'
  <1>1. SUFFICES ASSUME DataInv, [Next]_vars PROVE DataInv'
    OBVIOUS
  <1>2. Memory /\ ObjectsOK /\ (phase = "unopened" => pages = << >>)
    BY <1>1 DEF DataInv, NoMemory
  <1>3. CASE arenaInit
    BY <1>1, <1>3, OpenStep
  <1>4. CASE arenaDestroy
    BY <1>1, <1>4, CloseStep
  <1>5. CASE Use("envs") /\ EnvNext /\ UNCHANGED objectVars
    <2>1. Memory' /\ ArraysStay(arrays, arrays')
      BY <1>2, <1>5, EnvStep
    <2>2. ObjectsOK'
      BY <1>2, <1>5, <2>1, ObjectsKept
    <2>3. NoMemory'
      BY <1>2, <1>5, NoPagesStay DEF Use, NoMemory
    <2> QED
      BY <2>1, <2>2, <2>3 DEF DataInv
  <1>6. CASE Use("objects") /\ ObjectsNext
    <2>1. Memory' /\ ObjectsOK'
      BY <1>2, <1>6, ObjectsStep
    <2>2. NoMemory'
      BY <1>2, <1>6, NoPagesStay DEF Use, NoMemory
    <2> QED
      BY <2>1, <2>2 DEF DataInv
  <1>7. CASE UNCHANGED <<phase, envVars, objectVars>>
    <2>1. pages' = pages /\ arrays' = arrays /\ envs' = envs /\ phase' = phase
      BY <1>7 DEF envVars
    <2>2. Memory'
      BY <1>2, <2>1 DEF Memory
    <2>3. ObjectsOK'
      BY <1>2, <1>7, <2>1, ArraysSame, ObjectsKept
    <2> QED
      BY <1>2, <2>1, <2>2, <2>3 DEF DataInv, NoMemory
  <1> QED
    BY <1>1, <1>3, <1>4, <1>5, <1>6, <1>7 DEF Next, Use, vars

LEMMA Data == Spec => []DataInv
  BY InitData, StepData, PTL DEF Spec

\* However constructors are refused half way, whatever shares items and whenever
\* the layer is torn down: every block has exactly one owner, so none leaks and
\* none is freed twice (nn_list.c, nn_lambda.c, nn_ctxstr.c).
THEOREM HeapStaysAccounted == Spec => []HeapAccounted
  <1>1. DataInv => HeapAccounted
    BY HeapIsAccounted DEF DataInv
  <1> QED
    BY Data, <1>1, PTL

\* Whatever is allocated, filled or refused, for any sizes of pages, arrays and
\* counts: environments answer every lookup, and arrays and lists hold what was
\* put there (nn_env.c, nn_list.c).
THEOREM MemoryStaysReadable == Spec => []ReadsBack
  <1>1. DataInv => ReadsBack
    BY DataReads DEF DataInv
  <1> QED
    BY Data, <1>1, PTL

-----------------------------------------------------------------------------
(* Code: what an index of the bytecode store decodes to.                    *)

\* CountedPayload and one step of Decoded, for any instruction and any words.
PayloadOf(o, dat) ==
  LET spilled == o.short_arg = Spilled
      start == IF spilled THEN o.arg1 + 1 ELSE o.arg1
      n == IF spilled THEN dat[o.arg1] ELSE o.short_arg
  IN  [k \in 1 .. n |-> dat[start + k - 1]]
Meaning(o, dat, i, f) ==
  LET Child(j) == IF j \in 0 .. i - 1 THEN f[j] ELSE Junk
  IN  CASE o.op = "var" -> Var(o.arg1, o.arg2)
        [] o.op = "list" -> LET kids == PayloadOf(o, dat)
                            IN  List([k \in DOMAIN kids |-> Child(kids[k])])
        [] OTHER -> App(o.op, Child(o.arg1), Child(o.arg2))
Decodes(f, os, dat, n) == f = [i \in 0 .. n - 1 |-> Meaning(os[i], dat, i, f)]
AgreeBelow(f, g, i) == \A j \in 0 .. i - 1 : g[j] = f[j]
SamePayload(o, dat, dat2) == o.op = "list" => PayloadOf(o, dat2) = PayloadOf(o, dat)

LEMMA MeaningOn ==
  ASSUME NEW o, NEW dat, NEW dat2, NEW i \in Nat, NEW f, NEW g,
         AgreeBelow(f, g, i), SamePayload(o, dat, dat2)
  PROVE  Meaning(o, dat2, i, g) = Meaning(o, dat, i, f)
  <1>1. \A j : (IF j \in 0 .. i - 1 THEN g[j] ELSE Junk) = (IF j \in 0 .. i - 1 THEN f[j] ELSE Junk)
    BY DEF AgreeBelow
  <1>2. CASE o.op = "var"
    BY <1>2 DEF Meaning
  <1>3. CASE o.op = "list"
    <2>1. PICK kids : kids = PayloadOf(o, dat)
      OBVIOUS
    <2>2. PayloadOf(o, dat2) = kids
      BY <1>3, <2>1 DEF SamePayload
    <2>3. Meaning(o, dat2, i, g) =
            List([k \in DOMAIN kids |-> IF kids[k] \in 0 .. i - 1 THEN g[kids[k]] ELSE Junk])
      BY <1>3, <2>2 DEF Meaning
    <2>4. Meaning(o, dat, i, f) =
            List([k \in DOMAIN kids |-> IF kids[k] \in 0 .. i - 1 THEN f[kids[k]] ELSE Junk])
      BY <1>3, <2>1 DEF Meaning
    <2>5. [k \in DOMAIN kids |-> IF kids[k] \in 0 .. i - 1 THEN g[kids[k]] ELSE Junk]
          = [k \in DOMAIN kids |-> IF kids[k] \in 0 .. i - 1 THEN f[kids[k]] ELSE Junk]
      BY <1>1
    <2> QED
      BY <2>3, <2>4, <2>5
  <1>4. CASE o.op # "var" /\ o.op # "list"
    <2>1. PICK x, y : x = o.arg1 /\ y = o.arg2
      OBVIOUS
    <2>2. Meaning(o, dat2, i, g) = App(o.op, IF x \in 0 .. i - 1 THEN g[x] ELSE Junk,
                                             IF y \in 0 .. i - 1 THEN g[y] ELSE Junk)
      BY <1>4, <2>1 DEF Meaning
    <2>3. Meaning(o, dat, i, f) = App(o.op, IF x \in 0 .. i - 1 THEN f[x] ELSE Junk,
                                            IF y \in 0 .. i - 1 THEN f[y] ELSE Junk)
      BY <1>4, <2>1 DEF Meaning
    <2> QED
      BY <1>1, <2>2, <2>3
  <1> QED
    BY <1>2, <1>3, <1>4

LEMMA DecodesAt ==
  ASSUME NEW f, NEW os, NEW dat, NEW n \in Nat, Decodes(f, os, dat, n)
  PROVE  \A i \in 0 .. n - 1 : f[i] = Meaning(os[i], dat, i, f)
  <1>1. PICK g : g = [i \in 0 .. n - 1 |-> Meaning(os[i], dat, i, f)]
    OBVIOUS
  <1>2. f = g
    BY <1>1 DEF Decodes
  <1>3. \A i \in 0 .. n - 1 : g[i] = Meaning(os[i], dat, i, f)
    BY <1>1
  <1> QED
    BY <1>2, <1>3

LEMMA DecodingExists ==
  ASSUME NEW os, NEW dat, NEW n \in Nat
  PROVE  \E f : Decodes(f, os, dat, n)
  <1> DEFINE T == {m \in Nat : ~ \E f : Decodes(f, os, dat, m)}
  <1>1. SUFFICES ASSUME T # {} PROVE FALSE
    OBVIOUS
  <1>2. PICK m \in T : \A l \in T : m <= l
    BY <1>1, LeastOf
  <1>3. m # 0
    <2>1. PICK f : f = [i \in 0 .. 0 - 1 |-> Junk]
      OBVIOUS
    <2>2. Decodes(f, os, dat, 0)
      BY <2>1 DEF Decodes
    <2> QED
      BY <1>2, <2>2
  <1>4. PICK l : l = m - 1 /\ l \in Nat /\ l \notin T /\ m \in Nat /\ m - 1 = l
    BY <1>2, <1>3
  <1>5. PICK f : Decodes(f, os, dat, l)
    BY <1>4
  <1>6. PICK g : g = [i \in 0 .. m - 1 |-> IF i < l THEN f[i] ELSE Meaning(os[i], dat, i, f)]
    OBVIOUS
  <1>7. AgreeBelow(f, g, l)
    BY <1>4, <1>6 DEF AgreeBelow
  <1>8. ASSUME NEW i \in 0 .. m - 1 PROVE g[i] = Meaning(os[i], dat, i, g)
    <2>1. i \in Nat /\ i <= l
      BY <1>4
    <2>2. AgreeBelow(f, g, i)
      BY <1>4, <1>7, <2>1 DEF AgreeBelow
    <2>3. SamePayload(os[i], dat, dat)
      BY DEF SamePayload
    <2>4. Meaning(os[i], dat, i, g) = Meaning(os[i], dat, i, f)
      BY <2>1, <2>2, <2>3, MeaningOn
    <2>5. i < l => f[i] = Meaning(os[i], dat, i, f)
      BY <1>4, <1>5, <2>1, DecodesAt
    <2> QED
      BY <1>6, <2>4, <2>5
  <1>9. Decodes(g, os, dat, m)
    BY <1>6, <1>8 DEF Decodes
  <1> QED
    BY <1>2, <1>9

\* Appending leaves what decoded before.
LEMMA DecodingKept ==
  ASSUME NEW f, NEW os, NEW dat, NEW n \in Nat, Decodes(f, os, dat, n),
         NEW g, NEW os2, NEW dat2, NEW n2 \in Nat, Decodes(g, os2, dat2, n2), n <= n2,
         AgreeBelow(os, os2, n), \A i \in 0 .. n - 1 : SamePayload(os[i], dat, dat2)
  PROVE  AgreeBelow(f, g, n)
  <1> DEFINE T == {i \in 0 .. n - 1 : g[i] # f[i]}
  <1>1. SUFFICES ASSUME T # {} PROVE FALSE
    BY DEF AgreeBelow
  <1>2. PICK m \in T : \A i \in T : m <= i
    <2>1. T \in SUBSET Nat
      OBVIOUS
    <2> QED
      BY <1>1, <2>1, LeastOf
  <1>3. m \in Nat /\ m \in 0 .. n - 1 /\ m \in 0 .. n2 - 1 /\ g[m] # f[m]
    BY <1>2
  <1>4. ASSUME NEW j \in 0 .. m - 1 PROVE g[j] = f[j]
    <2>1. j \in 0 .. n - 1 /\ ~ (m <= j)
      BY <1>3
    <2> QED
      BY <1>2, <2>1
  <1>5. AgreeBelow(f, g, m)
    BY <1>4 DEF AgreeBelow
  <1>6. f[m] = Meaning(os[m], dat, m, f) /\ g[m] = Meaning(os2[m], dat2, m, g)
    BY <1>3, DecodesAt
  <1>7. os2[m] = os[m] /\ SamePayload(os[m], dat, dat2)
    BY <1>3 DEF AgreeBelow
  <1>8. Meaning(os[m], dat2, m, g) = Meaning(os[m], dat, m, f)
    BY <1>3, <1>5, <1>7, MeaningOn
  <1> QED
    BY <1>3, <1>6, <1>7, <1>8

LEMMA DecodedIs == opCount \in Nat => Decodes(Decoded, ops, data, opCount)
  <1>1. SUFFICES ASSUME opCount \in Nat PROVE Decodes(Decoded, ops, data, opCount)
    OBVIOUS
  <1> DEFINE F(f) == [i \in 0 .. opCount - 1 |-> Meaning(ops[i], data, i, f)]
  <1>2. Decoded = CHOOSE f : f = F(f)
    BY DEF Decoded, CountedPayload, Meaning, PayloadOf
  <1>3. \E f : f = F(f)
    <2>1. PICK os, dat, n : os = ops /\ dat = data /\ n = opCount /\ n \in Nat
      BY <1>1
    <2>2. \E f : Decodes(f, os, dat, n)
      BY <2>1, DecodingExists
    <2> QED
      BY <2>1, <2>2 DEF Decodes
  <1>4. Decoded = F(Decoded)
    BY <1>2, <1>3
  <1> QED
    BY <1>4 DEF Decodes

-----------------------------------------------------------------------------
(* Blocks that are appended to.                                             *)

AppendedTo(new, block, count, content) ==
  /\ Block(new) /\ count < SizeOf(new) /\ new[count] = content
  /\ \A w \in 0 .. count - 1 : new[w] = block[w]

LEMMA DoubledSize ==
  ASSUME NEW s \in Nat, ~ (Wrapped(2 * s) < s)
  PROVE  Wrapped(2 * s) = 2 * s
  <1>1. PICK m : m = MaxUInt + 1 /\ m \in Nat \ {0}
    BY UIntWidth
  <1>2. 2 * s \in Nat /\ Wrapped(2 * s) = (2 * s) % m
    BY <1>1 DEF Wrapped
  <1>3. (2 * s) % m \in 0 .. m - 1
    BY <1>1, <1>2
  <1>4. s < m
    BY <1>1, <1>2, <1>3
  <1>5. CASE 2 * s < m
    BY <1>1, <1>2, <1>5
  <1>6. CASE ~ (2 * s < m)
    <2>1. PICK r : r = 2 * s - m /\ r \in 0 .. m - 1 /\ r < s
      BY <1>1, <1>4, <1>6
    <2>2. (2 * s) % m = r
      BY <1>1, <1>2, <2>1
    <2> QED
      BY <1>2, <2>1, <2>2
  <1> QED
    BY <1>5, <1>6

LEMMA AppendTo ==
  ASSUME NEW block, Block(block), SizeOf(block) > 0, NEW count \in Nat, count <= SizeOf(block),
         NEW room \in ensure_space(block, count), NEW content
  PROVE  AppendedTo(WithAt(room, count, content), block, count, content)
  <1>1. PICK s : s = SizeOf(block) /\ s \in Nat
    BY DEF Block
  <1>2. /\ Block(room) /\ SizeOf(room) > count
        /\ \A w \in 0 .. s - 1 : room[w] = block[w]
    <2>1. CASE ~ Full(block, count)
      <3>1. room = block
        BY <2>1 DEF ensure_space
      <3>2. ~ (count >= s)
        BY <1>1, <2>1 DEF Full
      <3> QED
        BY <1>1, <3>1, <3>2
    <2>2. CASE Full(block, count)
      <3>1. PICK d : d = Wrapped(2 * s)
        OBVIOUS
      <3>2. ~ (d < s) /\ room = Resized(block, d)
        BY <1>1, <2>2, <3>1 DEF ensure_space
      <3>3. d = 2 * s /\ d \in Nat /\ d >= s /\ count < d
        <4>1. d = 2 * s
          BY <1>1, <3>1, <3>2, DoubledSize
        <4>2. s > 0 /\ count <= s
          BY <1>1
        <4> QED
          BY <1>1, <4>1, <4>2
      <3>4. /\ Block(Resized(block, d)) /\ SizeOf(Resized(block, d)) = d
            /\ \A w \in 0 .. s - 1 : Resized(block, d)[w] = block[w]
        BY <1>1, <3>3, ResizedBlock
      <3> QED
        BY <3>2, <3>3, <3>4
    <2> QED
      BY <2>1, <2>2
  <1>3. PICK n, new : n = SizeOf(room) /\ new = WithAt(room, count, content)
    OBVIOUS
  <1>4. n \in Nat /\ DOMAIN room = 0 .. n - 1 /\ count \in 0 .. n - 1
    BY <1>2, <1>3 DEF Block
  <1>5. /\ DOMAIN new = 0 .. n - 1 /\ new[count] = content
        /\ \A w \in 0 .. n - 1 : w # count => new[w] = room[w]
    BY <1>3, <1>4 DEF WithAt
  <1>6. Block(new) /\ SizeOf(new) = n
    BY <1>4, <1>5, BlockOf
  <1>7. ASSUME NEW w \in 0 .. count - 1 PROVE new[w] = block[w]
    <2>1. w \in 0 .. n - 1 /\ w # count /\ w \in 0 .. s - 1
      BY <1>1, <1>4
    <2> QED
      BY <1>2, <1>5, <2>1
  <1> QED
    BY <1>2, <1>3, <1>5, <1>6, <1>7 DEF AppendedTo

\* The end of a sequence, and a sequence without it.
LEMMA EndFacts ==
  ASSUME NEW s, IsSeq(s), NEW n \in 0 .. Len(s)
  PROVE  /\ IsSeq(SubSeq(s, Len(s) - n + 1, Len(s))) /\ Len(SubSeq(s, Len(s) - n + 1, Len(s))) = n
         /\ \A k \in 1 .. n : SubSeq(s, Len(s) - n + 1, Len(s))[k] = s[Len(s) - n + k]
         /\ IsSeq(SubSeq(s, 1, Len(s) - n)) /\ Len(SubSeq(s, 1, Len(s) - n)) = Len(s) - n
         /\ \A k \in 1 .. Len(s) - n : SubSeq(s, 1, Len(s) - n)[k] = s[k]
  <1>1. PICK S : s \in Seq(S)
    <2>1. PICK S : S = {s[i] : i \in 1 .. Len(s)}
      OBVIOUS
    <2>2. s \in Seq(S)
      BY <2>1, SeqIsIn
    <2> QED
      BY <2>2
  <1>2. PICK l, m : l = Len(s) /\ m = l - n /\ l \in Nat /\ m \in 0 .. l
    BY <1>1
  <1>3. PICK last : last = SubSeq(s, m + 1, l)
    OBVIOUS
  <1>4. last \in Seq(S) /\ Len(last) = n /\ \A k \in 1 .. n : last[k] = s[m + k]
    BY <1>1, <1>2, <1>3
  <1>5. PICK first : first = SubSeq(s, 1, m)
    OBVIOUS
  <1>6. first \in Seq(S) /\ Len(first) = m /\ \A k \in 1 .. m : first[k] = s[k]
    BY <1>1, <1>2, <1>5
  <1>7. IsSeq(last) /\ IsSeq(first)
    BY <1>4, <1>6, InSeq
  <1> QED
    BY <1>2, <1>3, <1>4, <1>5, <1>6, <1>7

LEMMA TailFacts ==
  ASSUME NEW s, IsSeq(s), s # << >>
  PROVE  /\ Len(s) >= 1 /\ Head(s) = s[1]
         /\ IsSeq(Tail(s)) /\ Len(Tail(s)) = Len(s) - 1
         /\ \A i \in 1 .. Len(s) - 1 : Tail(s)[i] = s[i + 1]
  <1>1. PICK S : s \in Seq(S)
    <2>1. PICK S : S = {s[i] : i \in 1 .. Len(s)}
      OBVIOUS
    <2>2. s \in Seq(S)
      BY <2>1, SeqIsIn
    <2> QED
      BY <2>2
  <1>2. /\ Len(s) >= 1 /\ Head(s) = s[1] /\ Tail(s) \in Seq(S) /\ Len(Tail(s)) = Len(s) - 1
        /\ \A i \in 1 .. Len(s) - 1 : Tail(s)[i] = s[i + 1]
    BY <1>1
  <1> QED
    BY <1>2, InSeq

Joined(u, s, t) ==
  /\ IsSeq(u) /\ Len(u) = Len(s) + Len(t)
  /\ \A i \in 1 .. Len(s) : u[i] = s[i]
  /\ \A i \in 1 .. Len(t) : u[Len(s) + i] = t[i]

LEMMA Joins ==
  ASSUME NEW s, IsSeq(s), NEW t, IsSeq(t)
  PROVE  Joined(s \o t, s, t)
  <1>1. PICK S : s \in Seq(S) /\ t \in Seq(S)
    <2>1. PICK S : S = {s[i] : i \in 1 .. Len(s)} \cup {t[i] : i \in 1 .. Len(t)}
      OBVIOUS
    <2>2. s \in Seq(S) /\ t \in Seq(S)
      BY <2>1, SeqIsIn
    <2> QED
      BY <2>2
  <1>2. PICK u : u = s \o t
    OBVIOUS
  <1>3. u \in Seq(S) /\ Len(u) = Len(s) + Len(t)
    BY <1>1, <1>2
  <1>4. \A i \in 1 .. Len(s) : u[i] = s[i]
    BY <1>1, <1>2
  <1>5. \A i \in 1 .. Len(t) : u[Len(s) + i] = t[i]
    BY <1>1, <1>2
  <1>6. IsSeq(u)
    BY <1>3, InSeq
  <1> QED
    BY <1>2, <1>3, <1>4, <1>5, <1>6 DEF Joined

LEMMA OneOf ==
  ASSUME NEW e, NEW s, s = <<e>>
  PROVE  IsSeq(s) /\ Len(s) = 1 /\ s[1] = e
  <1>1. s \in Seq({e}) /\ Len(s) = 1 /\ s[1] = e
    OBVIOUS
  <1> QED
    BY <1>1, InSeq

-----------------------------------------------------------------------------
(* Expressions, and the instructions that stand for them.                   *)

Kids(e) == IF e.op = "var" THEN << >> ELSE e.kids

LEMMA TreeFacts ==
  ASSUME NEW e \in Exprs
  PROVE  /\ IsSeq(Kids(e)) /\ Len(Kids(e)) \in Nat
         /\ \A k \in 1 .. Len(Kids(e)) : Kids(e)[k] \in Exprs
         /\ e.op = "var" => Len(Kids(e)) = 0 /\ e = Var(e.level, e.idx)
         /\ e.op = "list" => Kids(e) = e.kids /\ e = List(e.kids)
         /\ e.op \notin {"var", "list"} => /\ Kids(e) = e.kids /\ Len(Kids(e)) = 2
                                           /\ e = App(e.op, e.kids[1], e.kids[2])
  <1>1. CASE e.op = "var"
    <2>1. Kids(e) = << >> /\ e = Var(e.level, e.idx)
      BY <1>1, ExprsAreTrees DEF Kids
    <2> QED
      BY <1>1, <2>1, NothingIsSeq
  <1>2. CASE e.op = "list"
    <2>1. PICK s : s = e.kids
      OBVIOUS
    <2>2. s \in Seq(Exprs) /\ e = List(s) /\ Kids(e) = s
      BY <1>2, <2>1, ExprsAreTrees DEF Kids
    <2>3. IsSeq(s) /\ Len(s) \in Nat /\ \A k \in 1 .. Len(s) : s[k] \in Exprs
      BY <2>2, InSeq
    <2> QED
      BY <1>2, <2>1, <2>2, <2>3
  <1>3. CASE e.op \notin {"var", "list"}
    <2>1. PICK s : s = e.kids
      OBVIOUS
    <2>2. s \in Exprs \X Exprs /\ e = App(e.op, s[1], s[2]) /\ Kids(e) = s
      BY <1>3, <2>1, ExprsAreTrees DEF Kids
    <2>3. PICK x, y \in Exprs : s = <<x, y>>
      BY <2>2
    <2>4. s \in Seq(Exprs) /\ Len(s) = 2
      BY <2>3
    <2>5. IsSeq(s)
      BY <2>4, InSeq
    <2>6. \A k \in 1 .. Len(s) : s[k] \in Exprs
      <3>1. s[1] \in Exprs /\ s[2] \in Exprs
        BY <2>3
      <3>2. \A k \in 1 .. Len(s) : k = 1 \/ k = 2
        BY <2>4
      <3> QED
        BY <3>1, <3>2
    <2> QED
      BY <1>3, <2>6, <2>1, <2>2, <2>4, <2>5
  <1> QED
    BY <1>1, <1>2, <1>3

Means(f, n, i, e) == i \in 0 .. n - 1 /\ f[i] = e

\* The last that were done mean these expressions.
Ended(done, kids, f, n) ==
  /\ Len(kids) <= Len(done)
  /\ \A k \in 1 .. Len(kids) : Means(f, n, done[Len(done) - Len(kids) + k], kids[k])

LastOf(done, n) == SubSeq(done, Len(done) - n + 1, Len(done))
PayloadFor(done, n) == IF n < Spilled THEN LastOf(done, n) ELSE <<n>> \o LastOf(done, n)
WordsLieAt(dat, off, words, sent) == \A k \in 1 .. sent : dat[off + k - 1] = words[k]
EncodedBy(expr, off, done) ==
  CASE expr.op = "var" -> Instruction("var", 0, expr.level, expr.idx)
    [] expr.op = "list" -> LET n == Len(expr.kids)
                           IN  Instruction("list", IF n < Spilled THEN n ELSE Spilled, off, 0)
    [] OTHER -> Instruction(expr.op, 0, LastOf(done, 2)[1], LastOf(done, 2)[2])

\* The words of a list's instruction are among the first m.
PayloadLies(o, dat, m) ==
  IF o.short_arg = Spilled
  THEN o.arg1 \in 0 .. m - 1 /\ dat[o.arg1] \in Nat /\ o.arg1 + 1 + dat[o.arg1] <= m
  ELSE o.arg1 \in Nat /\ o.short_arg \in Nat /\ o.arg1 + o.short_arg <= m

LEMMA PayloadKept ==
  ASSUME NEW o, NEW dat, NEW dat2, NEW m \in Nat, NEW m2 \in Nat, m <= m2,
         PayloadLies(o, dat, m), AgreeBelow(dat, dat2, m)
  PROVE  PayloadLies(o, dat2, m2) /\ SamePayload(o, dat, dat2)
  <1>1. PICK a, s : a = o.arg1 /\ s = o.short_arg
    OBVIOUS
  <1>2. CASE s = Spilled
    <2>1. PICK n : n = dat[a]
      OBVIOUS
    <2>2. a \in 0 .. m - 1 /\ n \in Nat /\ a + 1 + n <= m
      BY <1>1, <1>2, <2>1 DEF PayloadLies
    <2>3. dat2[a] = n /\ a \in 0 .. m2 - 1 /\ a + 1 + n <= m2
      BY <2>1, <2>2 DEF AgreeBelow
    <2>4. PayloadLies(o, dat2, m2)
      BY <1>1, <1>2, <2>2, <2>3 DEF PayloadLies
    <2>5. PayloadOf(o, dat) = [k \in 1 .. n |-> dat[a + 1 + k - 1]]
      BY <1>1, <1>2, <2>1 DEF PayloadOf
    <2>6. PayloadOf(o, dat2) = [k \in 1 .. n |-> dat2[a + 1 + k - 1]]
      BY <1>1, <1>2, <2>3 DEF PayloadOf
    <2>7. ASSUME NEW k \in 1 .. n PROVE dat2[a + 1 + k - 1] = dat[a + 1 + k - 1]
      <3>1. a + 1 + k - 1 \in 0 .. m - 1
        BY <2>2
      <3> QED
        BY <3>1 DEF AgreeBelow
    <2> QED
      BY <2>4, <2>5, <2>6, <2>7 DEF SamePayload
  <1>3. CASE s # Spilled
    <2>1. a \in Nat /\ s \in Nat /\ a + s <= m /\ a + s <= m2
      BY <1>1, <1>3 DEF PayloadLies
    <2>2. PayloadLies(o, dat2, m2)
      BY <1>1, <1>3, <2>1 DEF PayloadLies
    <2>3. PayloadOf(o, dat) = [k \in 1 .. s |-> dat[a + k - 1]]
      BY <1>1, <1>3 DEF PayloadOf
    <2>4. PayloadOf(o, dat2) = [k \in 1 .. s |-> dat2[a + k - 1]]
      BY <1>1, <1>3 DEF PayloadOf
    <2>5. ASSUME NEW k \in 1 .. s PROVE dat2[a + k - 1] = dat[a + k - 1]
      <3>1. a + k - 1 \in 0 .. m - 1
        BY <2>1
      <3> QED
        BY <3>1 DEF AgreeBelow
    <2> QED
      BY <2>2, <2>3, <2>4, <2>5 DEF SamePayload
  <1> QED
    BY <1>2, <1>3

\* The words sent for a list: its children, after their number where it spills.
LEMMA PayloadFacts ==
  ASSUME NEW done, IsSeq(done), NEW n \in 0 .. Len(done)
  PROVE  /\ IsSeq(PayloadFor(done, n))
         /\ n < Spilled => /\ Len(PayloadFor(done, n)) = n
                           /\ \A k \in 1 .. n : PayloadFor(done, n)[k] = done[Len(done) - n + k]
         /\ ~ (n < Spilled) => /\ Len(PayloadFor(done, n)) = n + 1 /\ PayloadFor(done, n)[1] = n
                               /\ \A k \in 1 .. n : PayloadFor(done, n)[k + 1] = done[Len(done) - n + k]
  <1>1. PICK last : last = LastOf(done, n)
    OBVIOUS
  <1>2. IsSeq(last) /\ Len(last) = n /\ \A k \in 1 .. n : last[k] = done[Len(done) - n + k]
    BY <1>1, EndFacts DEF LastOf
  <1>3. CASE n < Spilled
    BY <1>1, <1>2, <1>3 DEF PayloadFor
  <1>4. CASE ~ (n < Spilled)
    <2>1. PICK one, both : one = <<n>> /\ both = one \o last
      OBVIOUS
    <2>2. IsSeq(one) /\ Len(one) = 1 /\ one[1] = n
      BY <2>1, OneOf
    <2>3. IsSeq(both) /\ Len(both) = 1 + n /\ both[1] = n /\ \A k \in 1 .. n : both[1 + k] = last[k]
      <3>1. Joined(both, one, last)
        BY <1>2, <2>1, <2>2, Joins
      <3> QED
        BY <1>2, <2>2, <3>1 DEF Joined
    <2>4. n \in Nat /\ \A k \in 1 .. n : k + 1 = 1 + k
      BY DEF IsSeq
    <2> QED
      BY <1>1, <1>2, <1>4, <2>1, <2>3, <2>4 DEF PayloadFor
  <1> QED
    BY <1>3, <1>4

WordsSent(off, words, dat, m) ==
  off \in Nat /\ off + Len(words) <= m /\ WordsLieAt(dat, off, words, Len(words))

Encodes(o, e, off, done, dat, m) ==
  /\ o = EncodedBy(e, off, done)
  /\ e.op = "list" => WordsSent(off, PayloadFor(done, Len(e.kids)), dat, m)
StandsFor(o, e, f, n, dat, m) ==
  Meaning(o, dat, n, f) = e /\ (o.op = "list" => PayloadLies(o, dat, m))

LEMMA EncodedMeans ==
  ASSUME NEW e \in Exprs, NEW off, NEW done, IsSeq(done), NEW f, NEW n \in Nat, Ended(done, Kids(e), f, n),
         NEW dat, NEW m \in Nat, NEW o, Encodes(o, e, off, done, dat, m)
  PROVE  StandsFor(o, e, f, n, dat, m)
  <1> USE DEF StandsFor
  <1>1. PICK l, q, kids, words :
          l = Len(done) /\ kids = Kids(e) /\ q = Len(kids) /\ words = PayloadFor(done, Len(e.kids))
    OBVIOUS
  <1>2. o = EncodedBy(e, off, done) /\ (e.op = "list" => WordsSent(off, words, dat, m))
    BY <1>1 DEF Encodes
  <1>3. l \in Nat /\ q \in 0 .. l /\ IsSeq(kids)
        /\ \A k \in 1 .. q : Means(f, n, done[l - q + k], kids[k])
    BY <1>1, TreeFacts DEF Ended, IsSeq
  <1>4. CASE e.op = "var"
    <2>1. o = Instruction("var", 0, e.level, e.idx) /\ e = Var(e.level, e.idx)
      BY <1>2, <1>4, TreeFacts DEF EncodedBy
    <2>2. o.op = "var" /\ o.arg1 = e.level /\ o.arg2 = e.idx
      BY <2>1 DEF Instruction
    <2> QED
      BY <2>1, <2>2 DEF Meaning
  <1>5. CASE e.op \notin {"var", "list"}
    <2>1. PICK last : last = LastOf(done, 2)
      OBVIOUS
    <2>2. q = 2 /\ e = App(e.op, kids[1], kids[2])
      BY <1>1, <1>5, TreeFacts
    <2>3. last[1] = done[l - q + 1] /\ last[2] = done[l - q + 2]
      BY <1>1, <1>3, <2>1, <2>2, EndFacts DEF LastOf
    <2>4. Means(f, n, last[1], kids[1]) /\ Means(f, n, last[2], kids[2])
      BY <1>3, <2>2, <2>3
    <2>5. o = Instruction(e.op, 0, last[1], last[2])
      BY <1>2, <1>5, <2>1 DEF EncodedBy
    <2>6. o.op = e.op /\ o.arg1 = last[1] /\ o.arg2 = last[2]
      BY <2>5 DEF Instruction
    <2>7. Meaning(o, dat, n, f) = App(e.op, kids[1], kids[2])
      BY <1>5, <2>4, <2>6 DEF Meaning, Means
    <2> QED
      BY <1>5, <2>2, <2>6, <2>7
  <1>6. CASE e.op = "list"
    <2>1. kids = e.kids /\ e = List(kids) /\ words = PayloadFor(done, q)
      BY <1>1, <1>6, TreeFacts
    <2>2. o = Instruction("list", IF q < Spilled THEN q ELSE Spilled, off, 0)
      BY <1>1, <1>2, <1>6, <2>1 DEF EncodedBy
    <2>3. o.op = "list" /\ o.short_arg = (IF q < Spilled THEN q ELSE Spilled) /\ o.arg1 = off
      BY <2>2 DEF Instruction
    <2>4. off \in Nat /\ off + Len(words) <= m /\ q \in Nat
          /\ \A k \in 1 .. Len(words) : dat[off + k - 1] = words[k]
      BY <1>2, <1>3, <1>6 DEF WordsLieAt, WordsSent
    <2>5. /\ PayloadLies(o, dat, m)
          /\ PayloadOf(o, dat) = [k \in 1 .. q |-> done[l - q + k]]
      <3>1. CASE q < Spilled
        <4>1. Len(words) = q /\ \A k \in 1 .. q : words[k] = done[l - q + k]
          <5>1. q \in 0 .. Len(done) /\ words = PayloadFor(done, q)
            BY <1>1, <1>3, <2>1
          <5>2. Len(PayloadFor(done, q)) = q
                /\ \A k \in 1 .. q : PayloadFor(done, q)[k] = done[Len(done) - q + k]
            BY <3>1, <5>1, PayloadFacts
          <5> QED
            BY <1>1, <5>1, <5>2
        <4>2. o.short_arg = q /\ q # Spilled
          BY <2>3, <2>4, <3>1, BytecodeSizes
        <4>3. PayloadOf(o, dat) = [k \in 1 .. q |-> dat[off + k - 1]]
          BY <2>3, <4>2 DEF PayloadOf
        <4>4. PayloadLies(o, dat, m)
          BY <2>3, <2>4, <4>1, <4>2 DEF PayloadLies
        <4> QED
          BY <2>4, <4>1, <4>3, <4>4
      <3>2. CASE ~ (q < Spilled)
        <4>1. /\ Len(words) = q + 1 /\ words[1] = q
              /\ \A k \in 1 .. q : words[k + 1] = done[l - q + k]
          <5>1. q \in 0 .. Len(done) /\ words = PayloadFor(done, q)
            BY <1>1, <1>3, <2>1
          <5>2. Len(PayloadFor(done, q)) = q + 1 /\ PayloadFor(done, q)[1] = q
                /\ \A k \in 1 .. q : PayloadFor(done, q)[k + 1] = done[Len(done) - q + k]
            BY <3>2, <5>1, PayloadFacts
          <5> QED
            BY <1>1, <5>1, <5>2
        <4>2. o.short_arg = Spilled
          BY <2>3, <3>2
        <4>3. dat[off] = q
          <5>1. 1 \in 1 .. Len(words) /\ off + 1 - 1 = off
            BY <2>4, <4>1
          <5> QED
            BY <2>4, <4>1, <5>1
        <4>4. PayloadOf(o, dat) = [k \in 1 .. q |-> dat[off + 1 + k - 1]]
          BY <2>3, <4>2, <4>3 DEF PayloadOf
        <4>5. ASSUME NEW k \in 1 .. q PROVE dat[off + 1 + k - 1] = done[l - q + k]
          <5>1. PICK h : h = k + 1 /\ h \in 1 .. Len(words) /\ off + 1 + k - 1 = off + h - 1
            BY <2>4, <4>1
          <5> QED
            BY <2>4, <4>1, <5>1
        <4>6. PayloadLies(o, dat, m)
          BY <2>3, <2>4, <4>1, <4>2, <4>3 DEF PayloadLies
        <4> QED
          BY <4>4, <4>5, <4>6
      <3> QED
        BY <3>1, <3>2
    <2>6. PICK s : s = [k \in 1 .. q |-> done[l - q + k]]
      OBVIOUS
    <2>7. Meaning(o, dat, n, f) = List([k \in DOMAIN s |-> IF s[k] \in 0 .. n - 1 THEN f[s[k]] ELSE Junk])
      BY <2>3, <2>5, <2>6 DEF Meaning
    <2>8. DOMAIN s = 1 .. q /\ \A k \in 1 .. q : s[k] \in 0 .. n - 1 /\ f[s[k]] = kids[k]
      BY <1>3, <2>6 DEF Means
    <2>9. kids = [k \in 1 .. q |-> kids[k]]
      BY <1>1, <1>3 DEF IsSeq
    <2>10. [k \in DOMAIN s |-> IF s[k] \in 0 .. n - 1 THEN f[s[k]] ELSE Junk] = kids
      BY <2>8, <2>9
    <2> QED
      BY <2>1, <2>5, <2>7, <2>10
  <1> QED
    BY <1>4, <1>5, <1>6

-----------------------------------------------------------------------------
(* The compiler as a stack machine: the expressions its stack will hold     *)
(* after each of the tasks left, down to the one it was asked for.          *)

Pops(t) == IF t.do = "go" THEN 0 ELSE Len(Kids(t.expr))
Runs(t, before, after) ==
  /\ before.len \in Nat /\ after.len \in Nat
  /\ Pops(t) <= before.len /\ after.len = before.len - Pops(t) + 1
  /\ \A k \in 1 .. before.len - Pops(t) : after.at[k] = before.at[k]
  /\ after.at[after.len] = t.expr
  /\ \A k \in 1 .. Pops(t) : before.at[before.len - Pops(t) + k] = Kids(t.expr)[k]
Ends(todo, stacks, goal) ==
  /\ \A j \in 1 .. Len(todo) : Runs(todo[j], stacks[j - 1], stacks[j])
  /\ stacks[Len(todo)].len = 1 /\ stacks[Len(todo)].at[1] = goal
Starts(stack, done, f, n) ==
  /\ stack.len = Len(done)
  /\ \A k \in 1 .. Len(done) : Means(f, n, done[k], stack.at[k])

TaskOK(t) ==
  /\ t.expr \in Exprs
  /\ t = Go(t.expr) \/ t = Emit(t.expr, t.off) \/ t = EmitWords(t.expr, t.words, t.off)
\* Only the first task has sent words.
Resting(t) ==
  /\ t.do = "emit" => t.expr.op # "list"
  /\ t.do = "words" => t.expr.op = "list" /\ t.words = << >>
Sent(t, words, dat, m) ==
  CASE t.do = "words" ->
         /\ t.expr.op = "list" /\ Len(t.words) \in 0 .. Len(words)
         /\ Len(t.words) > 0 => /\ t.off \in Nat /\ t.off + Len(t.words) = m
                                /\ WordsLieAt(dat, t.off, words, Len(t.words))
    [] t.do = "emit" ->
         t.expr.op = "list" => /\ t.off \in Nat /\ t.off + Len(words) <= m
                               /\ WordsLieAt(dat, t.off, words, Len(words))
    [] OTHER -> TRUE
First(t, done, dat, m) == Sent(t, PayloadFor(done, Len(t.expr.kids)), dat, m)

TasksOK(todo) ==
  /\ IsSeq(todo)
  /\ \A j \in 1 .. Len(todo) : TaskOK(todo[j])
  /\ \A j \in 2 .. Len(todo) : Resting(todo[j])
CompileOK(c, f, n, dat, m) ==
  /\ c = [expr |-> c.expr, todo |-> c.todo, done |-> c.done]
  /\ TasksOK(c.todo) /\ IsSeq(c.done)
  /\ Len(c.todo) > 0 => First(c.todo[1], c.done, dat, m)
  /\ \E stacks : Starts(stacks[0], c.done, f, n) /\ Ends(c.todo, stacks, c.expr)

CodeMeans(f, n) == \A c \in code : Means(f, n, c.idx, c.expr)
PayloadsLie(os, n, dat, m) == \A i \in 0 .. n - 1 : os[i].op = "list" => PayloadLies(os[i], dat, m)
Buffers ==
  /\ opCount \in Nat /\ dataCount \in Nat /\ Block(ops) /\ Block(data)
  /\ opCount <= SizeOf(ops) /\ dataCount <= SizeOf(data)
  /\ nn_bytecode_live => SizeOf(data) > 0
  /\ PayloadsLie(ops, opCount, data, dataCount)
CodeInv ==
  /\ Buffers /\ CodeMeans(Decoded, opCount)
  /\ compiling # None => CompileOK(compiling, Decoded, opCount, data, dataCount)

LEMMA TaskFacts ==
  ASSUME NEW t, TaskOK(t)
  PROVE  /\ t.expr \in Exprs /\ t.do \in {"go", "emit", "words"}
         /\ t.do = "go" => t = Go(t.expr)
         /\ Pops(t) \in Nat
  <1>1. t.expr \in Exprs
    BY DEF TaskOK
  <1>2. PICK e, x, y : e = t.expr /\ x = t.off /\ y = t.words
    OBVIOUS
  <1>3. t = Go(e) \/ t = Emit(e, x) \/ t = EmitWords(e, y, x)
    BY <1>2 DEF TaskOK
  <1>4. t.do \in {"go", "emit", "words"} /\ (t.do = "go" => t = Go(e))
    BY <1>3 DEF Go, Emit, EmitWords
  <1>5. Pops(t) \in Nat
    BY <1>1, TreeFacts DEF Pops
  <1> QED
    BY <1>1, <1>2, <1>4, <1>5

LEMMA GoFacts ==
  ASSUME NEW e \in Exprs, NEW t, t = Go(e)
  PROVE  TaskOK(t) /\ Resting(t) /\ t.do = "go" /\ t.expr = e /\ Pops(t) = 0
  <1>1. t.do = "go" /\ t.expr = e
    BY DEF Go
  <1> QED
    BY <1>1 DEF TaskOK, Resting, Pops

LEMMA EmitFacts ==
  ASSUME NEW e \in Exprs, NEW off, NEW t, t = Emit(e, off)
  PROVE  TaskOK(t) /\ t.do = "emit" /\ t.expr = e /\ t.off = off /\ Pops(t) = Len(Kids(e))
  <1>1. t.do = "emit" /\ t.expr = e /\ t.off = off
    BY DEF Emit
  <1> QED
    BY <1>1 DEF TaskOK, Pops

LEMMA WordsFacts ==
  ASSUME NEW e \in Exprs, NEW words, NEW off, NEW t, t = EmitWords(e, words, off)
  PROVE  TaskOK(t) /\ t.do = "words" /\ t.expr = e /\ t.off = off /\ t.words = words
         /\ Pops(t) = Len(Kids(e))
  <1>1. t.do = "words" /\ t.expr = e /\ t.off = off /\ t.words = words
    BY DEF EmitWords
  <1> QED
    BY <1>1 DEF TaskOK, Pops

LEMMA RestingFirst ==
  ASSUME NEW t, TaskOK(t), Resting(t), NEW done, IsSeq(done), NEW dat, NEW m,
         t.do # "go" => Pops(t) <= Len(done)
  PROVE  First(t, done, dat, m)
  <1>1. PICK e, n, words : e = t.expr /\ n = Len(e.kids) /\ words = PayloadFor(done, n)
    OBVIOUS
  <1>2. t.do \in {"go", "emit", "words"}
    BY TaskFacts
  <1>3. CASE t.do = "words"
    <2>1. e.op = "list" /\ t.words = << >>
      BY <1>1, <1>3 DEF Resting
    <2>2. n = Pops(t) /\ n \in Nat /\ Len(done) \in Nat /\ n <= Len(done)
      BY <1>1, <1>3, <2>1, TaskFacts, TreeFacts DEF Pops, IsSeq
    <2>3. n \in 0 .. Len(done)
      BY <2>2
    <2>4. IsSeq(words)
      BY <1>1, <2>3, PayloadFacts
    <2>5. Len(t.words) = 0 /\ Len(words) \in Nat
      BY <2>1, <2>4, NothingIsSeq DEF IsSeq
    <2> QED
      BY <1>1, <1>3, <2>1, <2>5 DEF First, Sent
  <1>4. CASE t.do = "emit"
    BY <1>1, <1>4 DEF Resting, First, Sent
  <1>5. CASE t.do = "go"
    BY <1>5 DEF First, Sent
  <1> QED
    BY <1>2, <1>3, <1>4, <1>5

\* The first of the tasks finds what it needs.
LEMMA RunFirst ==
  ASSUME NEW c, NEW f, NEW n, NEW dat, NEW m, CompileOK(c, f, n, dat, m), c.todo # << >>
  PROVE  LET t == c.todo[1]
         IN  /\ TaskOK(t) /\ First(t, c.done, dat, m) /\ Len(c.todo) >= 1 /\ Len(c.todo) \in Nat
             /\ Head(c.todo) = t /\ IsSeq(c.done) /\ Len(c.done) \in Nat
             /\ t.do # "go" => Ended(c.done, Kids(t.expr), f, n)
  <1>1. PICK todo, done, t : todo = c.todo /\ done = c.done /\ t = todo[1]
    OBVIOUS
  <1>2. /\ IsSeq(todo) /\ IsSeq(done) /\ Len(todo) >= 1 /\ Head(todo) = t
        /\ Len(todo) \in Nat /\ Len(done) \in Nat
    BY <1>1, TailFacts DEF CompileOK, TasksOK, IsSeq
  <1>3. TaskOK(t) /\ First(t, done, dat, m)
    BY <1>1, <1>2 DEF CompileOK, TasksOK
  <1>4. PICK stacks : Starts(stacks[0], done, f, n) /\ Ends(todo, stacks, c.expr)
    BY <1>1 DEF CompileOK
  <1>5. PICK a, b : a = stacks[0] /\ b = stacks[1]
    OBVIOUS
  <1>6. Runs(t, a, b)
    <2>1. 1 \in 1 .. Len(todo) /\ 1 - 1 = 0
      BY <1>2
    <2> QED
      BY <1>1, <1>4, <1>5, <2>1 DEF Ends
  <1>7. ASSUME t.do # "go" PROVE Ended(done, Kids(t.expr), f, n)
    <2>1. PICK kids, p, l : kids = Kids(t.expr) /\ p = Len(kids) /\ l = Len(done)
      OBVIOUS
    <2>2. Pops(t) = p /\ a.len = l /\ p \in Nat /\ l \in Nat
      BY <1>2, <1>3, <1>4, <1>5, <1>7, <2>1, TaskFacts DEF Pops, Starts
    <2>3. p <= l /\ \A k \in 1 .. p : a.at[l - p + k] = kids[k]
      BY <1>6, <2>1, <2>2 DEF Runs
    <2>4. ASSUME NEW k \in 1 .. p PROVE Means(f, n, done[l - p + k], kids[k])
      <3>1. PICK h : h = l - p + k /\ h \in 1 .. l
        BY <2>2, <2>3
      <3>2. Means(f, n, done[h], a.at[h])
        BY <1>4, <1>5, <2>1, <3>1 DEF Starts
      <3> QED
        BY <2>3, <3>1, <3>2
    <2> QED
      BY <2>1, <2>3, <2>4 DEF Ended
  <1> QED
    BY <1>1, <1>2, <1>3, <1>7

\* The same as an invariant of its own, for the states after a step.
LEMMA BuffersDecode == Buffers => opCount \in Nat /\ Decodes(Decoded, ops, data, opCount)
  BY DecodedIs DEF Buffers

LEMMA MeansOn ==
  ASSUME NEW f, NEW g, NEW n \in Nat, NEW n2 \in Nat, n <= n2, AgreeBelow(f, g, n)
  PROVE  \A i, e : Means(f, n, i, e) => Means(g, n2, i, e)
  BY DEF Means, AgreeBelow

LEMMA DataAppended ==
  ASSUME Buffers, NEW word, nn_bc_emit_data(word)
  PROVE  /\ Buffers' /\ AgreeBelow(Decoded, Decoded', opCount)
         /\ ops' = ops /\ opCount' = opCount /\ dataCount' = dataCount + 1
         /\ data'[dataCount] = word /\ AgreeBelow(data, data', dataCount)
  <1>1. /\ nn_bytecode_live /\ dataCount' = dataCount + 1 /\ ops' = ops /\ opCount' = opCount
        /\ \E room \in ensure_space(data, dataCount) : data' = WithAt(room, dataCount, word)
    BY DEF nn_bc_emit_data
  <1>2. PICK dat, n, dat2 : dat = data /\ n = dataCount /\ dat2 = data'
    OBVIOUS
  <1>3. Block(dat) /\ SizeOf(dat) > 0 /\ n \in Nat /\ n <= SizeOf(dat)
    BY <1>1, <1>2 DEF Buffers
  <1>4. PICK room \in ensure_space(dat, n) : dat2 = WithAt(room, n, word)
    BY <1>1, <1>2
  <1>5. AppendedTo(dat2, dat, n, word)
    BY <1>3, <1>4, AppendTo
  <1>6. PICK s : s = SizeOf(dat2) /\ s \in Nat /\ Block(dat2) /\ n < s /\ dat2[n] = word
                 /\ AgreeBelow(dat, dat2, n)
    BY <1>5 DEF AppendedTo, Block, AgreeBelow
  <1>7. PICK m, os : m = opCount /\ os = ops /\ m \in Nat
    BY DEF Buffers
  <1>8. ASSUME NEW i \in 0 .. m - 1, os[i].op = "list"
        PROVE  PayloadLies(os[i], dat2, n + 1) /\ SamePayload(os[i], dat, dat2)
    <2>1. PICK o : o = os[i]
      OBVIOUS
    <2>2. PayloadLies(o, dat, n)
      BY <1>2, <1>7, <1>8, <2>1 DEF Buffers, PayloadsLie
    <2>3. PayloadLies(o, dat2, n + 1) /\ SamePayload(o, dat, dat2)
      <3>1. PICK l : l = n + 1 /\ l \in Nat /\ n <= l
        BY <1>3
      <3> QED
        BY <1>3, <1>6, <2>2, <3>1, PayloadKept
    <2> QED
      BY <2>1, <2>3
  <1>9. Buffers'
    <2>1. n + 1 \in Nat /\ n + 1 <= s /\ s > 0
      BY <1>3, <1>6
    <2>2. m <= SizeOf(os) /\ Block(os)
      BY <1>7 DEF Buffers
    <2>3. PayloadsLie(os, m, dat2, n + 1)
      BY <1>8 DEF PayloadsLie
    <2> QED
      BY <1>1, <1>2, <1>6, <1>7, <2>1, <2>2, <2>3 DEF Buffers
  <1>10. AgreeBelow(Decoded, Decoded', opCount)
    <2>1. Decodes(Decoded, ops, data, opCount)
      BY BuffersDecode
    <2>2. Decodes(Decoded, ops, data, opCount)'
      BY <1>9, BuffersDecode, PTL
    <2>3. PICK f, g : f = Decoded /\ g = Decoded'
      OBVIOUS
    <2>4. Decodes(f, os, dat, m) /\ Decodes(g, os, dat2, m) /\ m <= m
      BY <1>1, <1>2, <1>7, <2>1, <2>2, <2>3
    <2>5. AgreeBelow(os, os, m) /\ \A i \in 0 .. m - 1 : SamePayload(os[i], dat, dat2)
      BY <1>8 DEF AgreeBelow, SamePayload
    <2>6. AgreeBelow(f, g, m)
      BY <1>7, <2>4, <2>5, DecodingKept
    <2> QED
      BY <1>7, <2>3, <2>6
  <1> QED
    BY <1>1, <1>2, <1>6, <1>9, <1>10

LEMMA OpAppended ==
  ASSUME Buffers, NEW o, nn_bc_emit(o), o.op = "list" => PayloadLies(o, data, dataCount)
  PROVE  /\ Buffers' /\ AgreeBelow(Decoded, Decoded', opCount)
         /\ data' = data /\ dataCount' = dataCount /\ opCount' = opCount + 1
         /\ Decoded'[opCount] = Meaning(o, data, opCount, Decoded)
  <1>1. /\ nn_bytecode_live /\ opCount' = opCount + 1 /\ data' = data /\ dataCount' = dataCount
        /\ \E room \in ensure_space(ops, opCount) : ops' = WithAt(room, opCount, o)
    BY DEF nn_bc_emit
  <1>2. PICK os, n, os2 : os = ops /\ n = opCount /\ os2 = ops'
    OBVIOUS
  <1>3. Block(os) /\ SizeOf(os) > 0 /\ n \in Nat /\ n <= SizeOf(os)
    BY <1>1, <1>2 DEF Buffers, nn_bytecode_live
  <1>4. PICK room \in ensure_space(os, n) : os2 = WithAt(room, n, o)
    BY <1>1, <1>2
  <1>5. AppendedTo(os2, os, n, o)
    BY <1>3, <1>4, AppendTo
  <1>6. PICK s : s = SizeOf(os2) /\ s \in Nat /\ Block(os2) /\ n < s /\ os2[n] = o
                 /\ AgreeBelow(os, os2, n)
    BY <1>5 DEF AppendedTo, Block, AgreeBelow
  <1>7. PICK m, dat : m = dataCount /\ dat = data
    OBVIOUS
  <1>8. m \in Nat /\ Block(dat) /\ m <= SizeOf(dat) /\ SizeOf(dat) > 0 /\ PayloadsLie(os, n, dat, m)
    BY <1>1, <1>2, <1>7 DEF Buffers
  <1>9. PICK l : l = n + 1 /\ l \in Nat /\ n <= l /\ n \in 0 .. l - 1 /\ l <= s
    BY <1>3, <1>6
  <1>10. PayloadsLie(os2, l, dat, m)
    <2>1. ASSUME NEW i \in 0 .. l - 1, os2[i].op = "list" PROVE PayloadLies(os2[i], dat, m)
      <3>1. CASE i = n
        BY <1>6, <1>7, <2>1, <3>1
      <3>2. CASE i # n
        <4>1. i \in 0 .. n - 1
          BY <1>3, <1>9, <3>2
        <4> QED
          BY <1>6, <1>8, <2>1, <4>1 DEF AgreeBelow, PayloadsLie
      <3> QED
        BY <3>1, <3>2
    <2> QED
      BY <2>1 DEF PayloadsLie
  <1>11. Buffers'
    BY <1>1, <1>2, <1>6, <1>7, <1>8, <1>9, <1>10 DEF Buffers
  <1>12. PICK f, g : f = Decoded /\ g = Decoded'
    OBVIOUS
  <1>13. Decodes(f, os, dat, n)
    BY <1>2, <1>7, <1>12, BuffersDecode
  <1>14. Decodes(g, os2, dat, l)
    <2>1. Decodes(Decoded, ops, data, opCount)'
      BY <1>11, BuffersDecode, PTL
    <2> QED
      BY <1>1, <1>2, <1>7, <1>9, <1>12, <2>1
  <1>15. AgreeBelow(f, g, n)
    <2>1. \A i \in 0 .. n - 1 : SamePayload(os[i], dat, dat)
      BY DEF SamePayload
    <2> QED
      BY <1>3, <1>6, <1>9, <1>13, <1>14, <2>1, DecodingKept
  <1>16. g[n] = Meaning(o, dat, n, f)
    <2>1. g[n] = Meaning(o, dat, n, g)
      BY <1>6, <1>9, <1>14, DecodesAt
    <2>2. SamePayload(o, dat, dat)
      BY DEF SamePayload
    <2> QED
      BY <1>3, <1>15, <2>1, <2>2, MeaningOn
  <1> QED
    BY <1>1, <1>2, <1>7, <1>11, <1>12, <1>15, <1>16

DescendsTo(c, c2, e, last, gos) ==
  /\ c.todo # << >> /\ c.todo[1].do = "go" /\ c.todo[1].expr = e
  /\ last = IF e.op = "list" THEN EmitWords(e, << >>, None) ELSE Emit(e, None)
  /\ gos = [i \in 1 .. Len(Kids(e)) |-> Go(Kids(e)[i])]
  /\ c2 = [expr |-> c.expr, todo |-> gos \o <<last>> \o Tail(c.todo), done |-> c.done]

\* Compiling the children in order, and then the expression over them, puts the
\* stack where the one task would.
LEMMA Descended ==
  ASSUME NEW c, NEW f, NEW n, NEW dat, NEW m, CompileOK(c, f, n, dat, m),
         NEW c2, NEW e, NEW last, NEW gos, DescendsTo(c, c2, e, last, gos)
  PROVE  CompileOK(c2, f, n, dat, m)
  <1>1. PICK todo, done, t, kids, q, T :
          /\ todo = c.todo /\ done = c.done /\ t = todo[1] /\ kids = Kids(e) /\ q = Len(kids) /\ T = Len(todo)
    OBVIOUS
  <1>2. /\ TaskOK(t) /\ T >= 1 /\ T \in Nat /\ IsSeq(todo) /\ IsSeq(done) /\ Len(done) \in Nat
        /\ todo # << >> /\ t.do = "go" /\ t.expr = e /\ e \in Exprs
        /\ \A j \in 1 .. T : TaskOK(todo[j])
        /\ \A j \in 2 .. T : Resting(todo[j])
    BY <1>1, RunFirst, TaskFacts DEF CompileOK, TasksOK, DescendsTo
  <1>3. IsSeq(kids) /\ q \in Nat /\ \A k \in 1 .. q : kids[k] \in Exprs
    BY <1>1, <1>2, TreeFacts
  <1>4. /\ gos = [i \in 1 .. q |-> Go(kids[i])]
        /\ last = (IF e.op = "list" THEN EmitWords(e, << >>, None) ELSE Emit(e, None))
    BY <1>1 DEF DescendsTo
  <1>5. IsSeq(gos) /\ Len(gos) = q /\ \A j \in 1 .. q : gos[j] = Go(kids[j])
    <2>1. gos = [i \in 1 .. q |-> gos[i]] /\ \A j \in 1 .. q : gos[j] = Go(kids[j])
      BY <1>4
    <2> QED
      BY <1>3, <2>1, BuiltFacts
  <1>6. TaskOK(last) /\ Resting(last) /\ last.do # "go" /\ last.expr = e /\ Pops(last) = q
    <2>1. CASE e.op = "list"
      BY <1>1, <1>2, <1>4, <2>1, WordsFacts DEF Resting
    <2>2. CASE e.op # "list"
      BY <1>1, <1>2, <1>4, <2>2, EmitFacts DEF Resting
    <2> QED
      BY <2>1, <2>2
  <1>7. PICK one, both, tail, todo2 : /\ one = <<last>> /\ both = gos \o one /\ tail = Tail(todo)
                                      /\ todo2 = both \o tail
    OBVIOUS
  <1>8. IsSeq(one) /\ Len(one) = 1 /\ one[1] = last
    BY <1>7, OneOf
  <1>9. IsSeq(tail) /\ Len(tail) = T - 1 /\ \A i \in 1 .. T - 1 : tail[i] = todo[i + 1]
    BY <1>1, <1>2, <1>7, TailFacts
  <1>10. IsSeq(both) /\ Len(both) = q + 1 /\ both[q + 1] = last
         /\ \A j \in 1 .. q : both[j] = gos[j]
    <2>1. Joined(both, gos, one)
      BY <1>5, <1>7, <1>8, Joins
    <2> QED
      BY <1>5, <1>8, <2>1 DEF Joined
  <1>11. IsSeq(todo2) /\ Len(todo2) = q + T
         /\ (\A j \in 1 .. q : todo2[j] = gos[j])
         /\ todo2[q + 1] = last
         /\ \A j \in q + 2 .. q + T : todo2[j] = todo[j - q]
    <2>1. Joined(todo2, both, tail)
      BY <1>7, <1>9, <1>10, Joins
    <2>2. IsSeq(todo2) /\ Len(todo2) = q + T
      BY <1>2, <1>3, <1>9, <1>10, <2>1 DEF Joined
    <2>3. \A j \in 1 .. q + 1 : todo2[j] = both[j]
      BY <1>10, <2>1 DEF Joined
    <2>4. ASSUME NEW j \in q + 2 .. q + T PROVE todo2[j] = todo[j - q]
      <3>1. PICK i : i = j - (q + 1) /\ i \in 1 .. T - 1 /\ q + 1 + i = j /\ i + 1 = j - q
        BY <1>2, <1>3
      <3>2. todo2[q + 1 + i] = tail[i]
        BY <1>9, <1>10, <2>1, <3>1 DEF Joined
      <3> QED
        BY <1>9, <3>1, <3>2
    <2>5. \A j \in 1 .. q : j \in 1 .. q + 1
      BY <1>3
    <2>6. q + 1 \in 1 .. q + 1
      BY <1>3
    <2> QED
      BY <1>10, <2>2, <2>3, <2>4, <2>5, <2>6
  <1>12. c2 = [expr |-> c.expr, todo |-> todo2, done |-> done]
    BY <1>1, <1>7 DEF DescendsTo
  <1>13. c2.expr = c.expr /\ c2.todo = todo2 /\ c2.done = done
    BY <1>12
  <1>14. ASSUME NEW j \in 1 .. q + T
         PROVE  /\ TaskOK(todo2[j])
                /\ j >= 2 => Resting(todo2[j])
                /\ j <= q + 1 => Resting(todo2[j])
    <2>1. CASE j <= q
      <3>1. todo2[j] = Go(kids[j]) /\ kids[j] \in Exprs
        BY <1>3, <1>5, <1>11, <2>1
      <3> QED
        BY <3>1, GoFacts
    <2>2. CASE j = q + 1
      BY <1>6, <1>11, <2>2
    <2>3. CASE j > q + 1
      <3>1. PICK i : i = j - q /\ i \in 2 .. T /\ todo2[j] = todo[i] /\ ~ (j <= q + 1)
        BY <1>2, <1>3, <1>11, <2>3
      <3> QED
        BY <1>2, <3>1
    <2> QED
      BY <1>3, <2>1, <2>2, <2>3
  <1>15. TasksOK(todo2)
    <2>1. \A j \in 2 .. q + T : j \in 1 .. q + T /\ j >= 2
      BY <1>2, <1>3
    <2> QED
      BY <1>11, <1>14, <2>1 DEF TasksOK
  <1>16. PICK stacks : Starts(stacks[0], done, f, n) /\ Ends(todo, stacks, c.expr)
    BY <1>1 DEF CompileOK
  <1>17. PICK a, b, l : a = stacks[0] /\ b = stacks[1] /\ l = a.len
    OBVIOUS
  <1>18. /\ l \in Nat /\ b.len = l + 1 /\ b.at[l + 1] = e
         /\ \A k \in 1 .. l : b.at[k] = a.at[k]
    <2>1. 1 \in 1 .. T /\ 1 - 1 = 0
      BY <1>2
    <2>2. Runs(t, a, b) /\ Pops(t) = 0
      BY <1>1, <1>2, <1>16, <1>17, <2>1 DEF Ends, Pops
    <2>3. l \in Nat /\ b.len = l - 0 + 1 /\ b.at[b.len] = e /\ \A k \in 1 .. l - 0 : b.at[k] = a.at[k]
      BY <1>2, <1>17, <2>2 DEF Runs
    <2> QED
      BY <2>3
  <1>19. PICK new : new = [j \in 0 .. q + T |->
                             IF j > q THEN stacks[j - q]
                             ELSE [len |-> l + j, at |-> [k \in 1 .. l + j |-> IF k <= l THEN a.at[k] ELSE kids[k - l]]]]
    OBVIOUS
  <1>20. \A j \in 0 .. q + T : j > q => new[j] = stacks[j - q]
    BY <1>19
  <1>21. ASSUME NEW j \in 0 .. q
         PROVE  /\ new[j].len = l + j
                /\ \A k \in 1 .. l : new[j].at[k] = a.at[k]
                /\ \A k \in 1 .. j : new[j].at[l + k] = kids[k]
    <2>1. j \in 0 .. q + T /\ ~ (j > q) /\ j \in Nat
      BY <1>2, <1>3
    <2>2. PICK at : at = [k \in 1 .. l + j |-> IF k <= l THEN a.at[k] ELSE kids[k - l]]
      OBVIOUS
    <2>3. new[j] = [len |-> l + j, at |-> at]
      BY <1>19, <2>1, <2>2
    <2>4. new[j].len = l + j /\ new[j].at = at
      BY <2>3
    <2>5. \A k \in 1 .. l : at[k] = a.at[k]
      BY <1>18, <2>1, <2>2
    <2>6. \A k \in 1 .. j : at[l + k] = kids[k]
      BY <1>18, <2>1, <2>2
    <2> QED
      BY <2>4, <2>5, <2>6
  <1>22. Starts(new[0], done, f, n)
    <2>1. 0 \in 0 .. q /\ l + 0 = l /\ l = Len(done)
      BY <1>3, <1>16, <1>17, <1>18 DEF Starts
    <2>2. new[0].len = l /\ \A k \in 1 .. l : new[0].at[k] = a.at[k]
      BY <1>21, <2>1
    <2>3. \A k \in 1 .. Len(done) : Means(f, n, done[k], a.at[k])
      BY <1>16, <1>17 DEF Starts
    <2> QED
      BY <2>1, <2>2, <2>3 DEF Starts
  <1>23. ASSUME NEW j \in 1 .. q + T PROVE Runs(todo2[j], new[j - 1], new[j])
    <2>1. CASE j <= q
      <3>1. todo2[j] = Go(kids[j]) /\ kids[j] \in Exprs
        BY <1>3, <1>5, <1>11, <2>1
      <3>2. PICK g, x, y : g = todo2[j] /\ x = new[j - 1] /\ y = new[j]
        OBVIOUS
      <3>3. Pops(g) = 0 /\ g.expr = kids[j]
        BY <3>1, <3>2, GoFacts
      <3>4. j \in 0 .. q /\ j - 1 \in 0 .. q /\ j \in 1 .. j /\ \A k \in 1 .. j - 1 : k \in 1 .. j
        BY <1>3, <2>1
      <3>5. /\ x.len = l + (j - 1) /\ (\A k \in 1 .. l : x.at[k] = a.at[k])
            /\ \A k \in 1 .. j - 1 : x.at[l + k] = kids[k]
        BY <1>21, <3>2, <3>4
      <3>6. /\ y.len = l + j /\ (\A k \in 1 .. l : y.at[k] = a.at[k])
            /\ \A k \in 1 .. j : y.at[l + k] = kids[k]
        BY <1>21, <3>2, <3>4
      <3>7. ASSUME NEW k \in 1 .. x.len - 0 PROVE y.at[k] = x.at[k]
        <4>1. CASE k <= l
          <5>1. k \in 1 .. l
            BY <1>18, <3>4, <3>5, <3>7, <4>1
          <5> QED
            BY <3>5, <3>6, <5>1
        <4>2. CASE ~ (k <= l)
          <5>1. PICK h : h = k - l /\ h \in 1 .. j - 1 /\ l + h = k
            BY <1>18, <3>4, <3>5, <3>7, <4>2
          <5> QED
            BY <3>4, <3>5, <3>6, <5>1
        <4> QED
          BY <4>1, <4>2
      <3>8. x.len \in Nat /\ y.len \in Nat /\ 0 <= x.len /\ y.len = x.len - 0 + 1
        BY <1>18, <3>4, <3>5, <3>6
      <3>9. y.at[y.len] = kids[j]
        BY <3>4, <3>6
      <3>10. \A k \in 1 .. 0 : x.at[x.len - 0 + k] = Kids(g.expr)[k]
        OBVIOUS
      <3> QED
        BY <3>2, <3>3, <3>7, <3>8, <3>9, <3>10 DEF Runs
    <2>2. CASE j = q + 1
      <3>1. PICK x, y : x = new[j - 1] /\ y = new[j]
        OBVIOUS
      <3>2. j - 1 \in 0 .. q /\ j - 1 = q /\ j \in 0 .. q + T /\ j > q /\ j - q = 1
        BY <1>2, <1>3, <2>2
      <3>3. /\ x.len = l + q /\ (\A k \in 1 .. l : x.at[k] = a.at[k])
            /\ \A k \in 1 .. q : x.at[l + k] = kids[k]
        BY <1>21, <3>1, <3>2
      <3>4. y = b
        BY <1>17, <1>20, <3>1, <3>2
      <3>5. x.len \in Nat /\ y.len \in Nat /\ q <= x.len /\ x.len - q = l /\ y.len = x.len - q + 1
        BY <1>3, <1>18, <3>3, <3>4
      <3>6. \A k \in 1 .. x.len - q : y.at[k] = x.at[k]
        BY <1>18, <3>3, <3>4, <3>5
      <3>7. y.at[y.len] = e
        BY <1>18, <3>4
      <3>8. \A k \in 1 .. q : x.at[x.len - q + k] = Kids(last.expr)[k]
        BY <1>1, <1>6, <3>3, <3>5
      <3>9. todo2[j] = last
        BY <1>11, <2>2
      <3>10. Runs(last, x, y)
        BY <1>6, <3>5, <3>6, <3>7, <3>8 DEF Runs
      <3> QED
        BY <3>1, <3>9, <3>10
    <2>3. CASE j > q + 1
      <3>1. PICK i : i = j - q /\ i \in 2 .. T /\ i \in 1 .. T /\ todo2[j] = todo[i]
        BY <1>2, <1>3, <1>11, <2>3
      <3>2. j \in 0 .. q + T /\ j > q /\ j - 1 \in 0 .. q + T /\ j - 1 > q /\ (j - 1) - q = i - 1
        BY <1>2, <1>3, <2>3, <3>1
      <3>3. new[j] = stacks[i] /\ new[j - 1] = stacks[i - 1]
        BY <1>20, <3>1, <3>2
      <3>4. Runs(todo[i], stacks[i - 1], stacks[i])
        BY <1>1, <1>16, <3>1 DEF Ends
      <3> QED
        BY <3>1, <3>3, <3>4
    <2> QED
      BY <1>3, <2>1, <2>2, <2>3
  <1>24. Ends(todo2, new, c.expr)
    <2>1. q + T \in 0 .. q + T /\ q + T > q /\ (q + T) - q = T
      BY <1>2, <1>3
    <2>2. new[q + T] = stacks[T]
      BY <1>20, <2>1
    <2>3. stacks[T].len = 1 /\ stacks[T].at[1] = c.expr
      BY <1>1, <1>16 DEF Ends
    <2> QED
      BY <1>11, <1>23, <2>2, <2>3 DEF Ends
  <1>25. First(todo2[1], done, dat, m)
    <2>1. 1 \in 1 .. q + T /\ 1 <= q + 1
      BY <1>2, <1>3
    <2>2. TaskOK(todo2[1]) /\ Resting(todo2[1])
      BY <1>14, <2>1
    <2>3. todo2[1].do # "go" => Pops(todo2[1]) <= Len(done)
      <3>1. PICK g : g = todo2[1]
        OBVIOUS
      <3>2. Runs(g, new[1 - 1], new[1]) /\ 1 - 1 = 0
        BY <1>23, <2>1, <3>1
      <3>3. Pops(g) <= new[0].len
        BY <3>2 DEF Runs
      <3> QED
        BY <1>22, <3>1, <3>3 DEF Starts
    <2> QED
      BY <1>2, <2>2, <2>3, RestingFirst
  <1> QED
    BY <1>2, <1>12, <1>13, <1>15, <1>22, <1>24, <1>25 DEF CompileOK

\* The first task has sent more words, or all of them.
LEMMA Advanced ==
  ASSUME NEW c, NEW f, NEW n \in Nat, NEW dat, NEW m, CompileOK(c, f, n, dat, m), c.todo # << >>,
         NEW t, TaskOK(t), t.expr = c.todo[1].expr, t.do # "go", c.todo[1].do # "go",
         NEW todo2, PutAt(todo2, c.todo, 1, t),
         NEW c2, c2 = [expr |-> c.expr, todo |-> todo2, done |-> c.done],
         NEW g, AgreeBelow(f, g, n), NEW dat2, NEW m2, First(t, c.done, dat2, m2)
  PROVE  CompileOK(c2, g, n, dat2, m2)
  <1>1. PICK todo, done, T, t1 : todo = c.todo /\ done = c.done /\ T = Len(todo) /\ t1 = todo[1]
    OBVIOUS
  <1>2. IsSeq(todo) /\ IsSeq(done) /\ T \in Nat /\ T >= 1
    BY <1>1, RunFirst DEF CompileOK, TasksOK
  <1>3. IsSeq(todo2) /\ Len(todo2) = T /\ \A i \in 1 .. T : todo2[i] = IF i = 1 THEN t ELSE todo[i]
    <2>1. 1 \in 1 .. Len(todo) /\ PutAt(todo2, todo, 1, t)
      BY <1>1, <1>2
    <2> QED
      BY <1>1, <1>2, <2>1, ExceptFacts
  <1>4. c2.expr = c.expr /\ c2.todo = todo2 /\ c2.done = done
    BY <1>1
  <1>5. TasksOK(todo2)
    <2>1. ASSUME NEW j \in 1 .. T PROVE TaskOK(todo2[j]) /\ (j \in 2 .. T => Resting(todo2[j]))
      <3>1. j \in 2 .. T => j # 1
        OBVIOUS
      <3> QED
        BY <1>1, <1>3, <2>1, <3>1 DEF CompileOK, TasksOK
    <2>2. \A j \in 2 .. T : j \in 1 .. T
      BY <1>2
    <2> QED
      BY <1>3, <2>1, <2>2 DEF TasksOK
  <1>6. PICK stacks : Starts(stacks[0], done, f, n) /\ Ends(todo, stacks, c.expr)
    BY <1>1 DEF CompileOK
  <1>7. Starts(stacks[0], done, g, n)
    <2>1. n <= n
      OBVIOUS
    <2> QED
      BY <1>6, <2>1, MeansOn DEF Starts
  <1>8. Ends(todo2, stacks, c.expr)
    <2>1. Pops(t) = Pops(t1) /\ t.expr = t1.expr
      BY <1>1 DEF Pops
    <2>2. ASSUME NEW j \in 1 .. T PROVE Runs(todo2[j], stacks[j - 1], stacks[j])
      <3>1. Runs(todo[j], stacks[j - 1], stacks[j])
        BY <1>1, <1>6, <2>2 DEF Ends
      <3>2. CASE j = 1
        <4>1. todo2[j] = t /\ todo[j] = t1
          BY <1>1, <1>3, <2>2, <3>2
        <4> QED
          BY <2>1, <3>1, <4>1 DEF Runs
      <3>3. CASE j # 1
        BY <1>3, <2>2, <3>1, <3>3
      <3> QED
        BY <3>2, <3>3
    <2> QED
      BY <1>1, <1>3, <1>6, <2>2 DEF Ends
  <1>9. todo2[1] = t
    <2>1. 1 \in 1 .. T
      BY <1>2
    <2> QED
      BY <1>3, <2>1
  <1> QED
    BY <1>1, <1>2, <1>4, <1>5, <1>7, <1>8, <1>9 DEF CompileOK

Finishes(c, c2, p, i) ==
  c2 = [expr |-> c.expr, todo |-> Tail(c.todo), done |-> Append(SubSeq(c.done, 1, Len(c.done) - p), i)]

\* The first task has appended its instruction.
LEMMA Finished ==
  ASSUME NEW c, NEW f, NEW n \in Nat, NEW dat, NEW m, CompileOK(c, f, n, dat, m), c.todo # << >>,
         c.todo[1].do # "go",
         NEW c2, NEW p, p = Len(Kids(c.todo[1].expr)), Finishes(c, c2, p, n),
         NEW g, AgreeBelow(f, g, n), g[n] = c.todo[1].expr
  PROVE  CompileOK(c2, g, n + 1, dat, m)
  <1>1. PICK todo, done, T, t, e, L, l :
          /\ todo = c.todo /\ done = c.done /\ T = Len(todo) /\ t = todo[1] /\ e = t.expr
          /\ L = Len(done) /\ l = n + 1
    OBVIOUS
  <1>2. /\ IsSeq(todo) /\ IsSeq(done) /\ T \in Nat /\ T >= 1 /\ TaskOK(t) /\ e \in Exprs
        /\ t.do # "go" /\ L \in Nat /\ l \in Nat /\ n <= l
    BY <1>1, RunFirst, TaskFacts DEF CompileOK, TasksOK
  <1>3. Pops(t) = p /\ p \in Nat
    BY <1>1, <1>2, TreeFacts DEF Pops
  <1>4. PICK stacks : Starts(stacks[0], done, f, n) /\ Ends(todo, stacks, c.expr)
    BY <1>1 DEF CompileOK
  <1>5. PICK a, b : a = stacks[0] /\ b = stacks[1]
    OBVIOUS
  <1>6. Runs(t, a, b) /\ a.len = L
    <2>1. 1 \in 1 .. T /\ 1 - 1 = 0
      BY <1>2
    <2> QED
      BY <1>1, <1>4, <1>5, <2>1 DEF Ends, Starts
  <1>7. PICK r : r = L - p /\ r \in 0 .. L /\ p \in 0 .. L
    BY <1>2, <1>3, <1>6 DEF Runs
  <1>8. b.len = r + 1 /\ b.at[r + 1] = e /\ \A k \in 1 .. r : b.at[k] = a.at[k]
    BY <1>1, <1>3, <1>6, <1>7 DEF Runs
  <1>9. PICK rest, done2 : rest = SubSeq(done, 1, r) /\ done2 = Append(rest, n)
    OBVIOUS
  <1>10. IsSeq(rest) /\ Len(rest) = r /\ \A k \in 1 .. r : rest[k] = done[k]
    <2>1. /\ IsSeq(SubSeq(done, 1, Len(done) - p)) /\ Len(SubSeq(done, 1, Len(done) - p)) = Len(done) - p
          /\ \A k \in 1 .. Len(done) - p : SubSeq(done, 1, Len(done) - p)[k] = done[k]
      <3>1. p \in 0 .. Len(done)
        BY <1>1, <1>7
      <3> QED
        BY <1>2, <3>1, EndFacts
    <2>2. Len(done) - p = r
      BY <1>1, <1>7
    <2> QED
      BY <1>9, <2>1, <2>2
  <1>11. IsSeq(done2) /\ Len(done2) = r + 1 /\ done2[r + 1] = n /\ \A k \in 1 .. r : done2[k] = done[k]
    <2>1. PICK S : rest \in Seq(S) /\ n \in S
      <3>1. PICK S : S = {rest[i] : i \in 1 .. Len(rest)} \cup {n}
        OBVIOUS
      <3>2. {rest[i] : i \in 1 .. Len(rest)} \subseteq S /\ n \in S
        BY <3>1
      <3>3. rest \in Seq(S)
        BY <1>10, <3>2, SeqIsIn
      <3> QED
        BY <3>2, <3>3
    <2>2. /\ done2 \in Seq(S) /\ Len(done2) = Len(rest) + 1 /\ done2[Len(rest) + 1] = n
          /\ \A k \in 1 .. Len(rest) : done2[k] = rest[k]
      BY <1>9, <2>1
    <2>3. IsSeq(done2)
      BY <2>2, InSeq
    <2> QED
      BY <1>10, <2>2, <2>3
  <1>12. PICK todo2 : todo2 = Tail(todo)
    OBVIOUS
  <1>13. IsSeq(todo2) /\ Len(todo2) = T - 1 /\ \A i \in 1 .. T - 1 : todo2[i] = todo[i + 1]
    BY <1>1, <1>2, <1>12, TailFacts
  <1>14. c2 = [expr |-> c.expr, todo |-> todo2, done |-> done2]
    BY <1>1, <1>7, <1>9, <1>12 DEF Finishes
  <1>15. c2.expr = c.expr /\ c2.todo = todo2 /\ c2.done = done2
    BY <1>14
  <1>16. ASSUME NEW j \in 1 .. T - 1 PROVE TaskOK(todo2[j]) /\ Resting(todo2[j])
    <2>1. PICK i : i = j + 1 /\ i \in 1 .. T /\ i \in 2 .. T
      BY <1>2
    <2> QED
      BY <1>1, <1>13, <2>1 DEF CompileOK, TasksOK
  <1>17. TasksOK(todo2)
    <2>1. \A j \in 2 .. T - 1 : j \in 1 .. T - 1
      BY <1>2
    <2> QED
      BY <1>13, <1>16, <2>1 DEF TasksOK
  <1>18. PICK new : new = [j \in 0 .. T - 1 |-> stacks[j + 1]]
    OBVIOUS
  <1>19. \A j \in 0 .. T - 1 : new[j] = stacks[j + 1]
    BY <1>18
  <1>20. new[0] = b
    <2>1. 0 \in 0 .. T - 1 /\ 0 + 1 = 1
      BY <1>2
    <2> QED
      BY <1>5, <1>19, <2>1
  <1>21. Starts(b, done2, g, l)
    <2>1. ASSUME NEW k \in 1 .. r + 1 PROVE Means(g, l, done2[k], b.at[k])
      <3>1. CASE k = r + 1
        <4>1. n \in 0 .. l - 1
          BY <1>1, <1>2
        <4> QED
          BY <1>1, <1>8, <1>11, <3>1, <4>1 DEF Means
      <3>2. CASE k # r + 1
        <4>1. k \in 1 .. r /\ k \in 1 .. L
          BY <1>2, <1>7, <3>2
        <4>2. Means(f, n, done[k], a.at[k])
          BY <1>1, <1>4, <1>5, <4>1 DEF Starts
        <4>3. Means(g, l, done[k], a.at[k])
          BY <1>2, <4>2, MeansOn
        <4> QED
          BY <1>8, <1>11, <4>1, <4>3
      <3> QED
        BY <3>1, <3>2
    <2> QED
      BY <1>8, <1>11, <2>1 DEF Starts
  <1>22. ASSUME NEW j \in 1 .. T - 1 PROVE Runs(todo2[j], new[j - 1], new[j])
    <2>1. PICK i : /\ i = j + 1 /\ i \in 1 .. T /\ i - 1 = j
                   /\ j - 1 \in 0 .. T - 1 /\ j \in 0 .. T - 1 /\ (j - 1) + 1 = j
      BY <1>2
    <2>2. Runs(todo[i], stacks[i - 1], stacks[i])
      BY <1>1, <1>4, <2>1 DEF Ends
    <2>3. new[j - 1] = stacks[j] /\ new[j] = stacks[i] /\ todo2[j] = todo[i]
      BY <1>13, <1>19, <2>1
    <2> QED
      BY <2>1, <2>2, <2>3
  <1>23. Ends(todo2, new, c.expr)
    <2>1. T - 1 \in 0 .. T - 1 /\ (T - 1) + 1 = T
      BY <1>2
    <2>2. new[T - 1] = stacks[T]
      BY <1>19, <2>1
    <2>3. stacks[T].len = 1 /\ stacks[T].at[1] = c.expr
      BY <1>1, <1>4 DEF Ends
    <2> QED
      BY <1>13, <1>22, <2>2, <2>3 DEF Ends
  <1>24. Len(todo2) > 0 => First(todo2[1], done2, dat, m)
    <2>1. SUFFICES ASSUME Len(todo2) > 0 PROVE First(todo2[1], done2, dat, m)
      OBVIOUS
    <2>2. 1 \in 1 .. T - 1 /\ 1 - 1 = 0
      BY <1>2, <1>13, <2>1
    <2>3. PICK x : x = todo2[1] /\ TaskOK(x) /\ Resting(x) /\ Runs(x, b, new[1])
      BY <1>16, <1>20, <1>22, <2>2
    <2>4. Pops(x) <= Len(done2)
      BY <1>8, <1>11, <2>3 DEF Runs
    <2> QED
      BY <1>11, <2>3, <2>4, RestingFirst
  <1>25. \E s : Starts(s[0], done2, g, l) /\ Ends(todo2, s, c.expr)
    BY <1>20, <1>21, <1>23
  <1>26. CompileOK(c2, g, l, dat, m)
    BY <1>11, <1>14, <1>15, <1>17, <1>24, <1>25 DEF CompileOK
  <1> QED
    BY <1>1, <1>26

-----------------------------------------------------------------------------
(* The steps of the compiler.                                               *)

LEMMA CodeSame ==
  ASSUME Buffers, UNCHANGED <<ops, opCount, data, dataCount>>
  PROVE  Buffers' /\ Decoded' = Decoded
  <1>1. ops' = ops /\ opCount' = opCount /\ data' = data /\ dataCount' = dataCount
    OBVIOUS
  <1>2. Buffers'
    BY <1>1 DEF Buffers, nn_bytecode_live
  <1>3. Decoded' = Decoded
    BY <1>1 DEF Decoded, CountedPayload
  <1> QED
    BY <1>2, <1>3

\* A step that appends nothing.
LEMMA OnlyCompiling ==
  ASSUME CodeInv, UNCHANGED <<ops, opCount, data, dataCount, code>>,
         compiling' # None => CompileOK(compiling', Decoded, opCount, data, dataCount)
  PROVE  CodeInv'
  <1>1. Buffers' /\ Decoded' = Decoded
    BY CodeSame DEF CodeInv
  <1>2. ops' = ops /\ opCount' = opCount /\ data' = data /\ dataCount' = dataCount /\ code' = code
    OBVIOUS
  <1>3. CodeMeans(Decoded, opCount)'
    BY <1>1, <1>2 DEF CodeInv, CodeMeans
  <1>4. (compiling # None => CompileOK(compiling, Decoded, opCount, data, dataCount))'
    BY <1>1, <1>2
  <1> QED
    BY <1>1, <1>3, <1>4 DEF CodeInv

\* A step that appends, and answers nothing yet.
LEMMA OnlyAppending ==
  ASSUME CodeInv, Buffers', AgreeBelow(Decoded, Decoded', opCount), code' = code,
         opCount' \in Nat, opCount <= opCount',
         CompileOK(compiling', Decoded', opCount', data', dataCount')
  PROVE  CodeInv'
  <1>1. PICK f, g, n, n2 : f = Decoded /\ g = Decoded' /\ n = opCount /\ n2 = opCount'
    OBVIOUS
  <1>2. n \in Nat /\ n2 \in Nat /\ n <= n2 /\ AgreeBelow(f, g, n)
    BY <1>1 DEF CodeInv, Buffers
  <1>3. ASSUME NEW c \in code PROVE Means(g, n2, c.idx, c.expr)
    <2>1. Means(f, n, c.idx, c.expr)
      BY <1>1 DEF CodeInv, CodeMeans
    <2> QED
      BY <1>2, <2>1, MeansOn
  <1>4. CodeMeans(Decoded, opCount)'
    BY <1>1, <1>3 DEF CodeMeans
  <1> QED
    BY <1>4 DEF CodeInv

Starting(c, e) == c = [expr |-> e, todo |-> <<Go(e)>>, done |-> << >>]

LEMMA Started ==
  ASSUME NEW e \in Exprs, NEW c, Starting(c, e), NEW f, NEW n, NEW dat, NEW m
  PROVE  CompileOK(c, f, n, dat, m)
  <1>1. PICK t, todo, done : t = Go(e) /\ todo = <<t>> /\ done = << >>
    OBVIOUS
  <1>2. c = [expr |-> e, todo |-> todo, done |-> done]
    BY <1>1 DEF Starting
  <1>3. c.expr = e /\ c.todo = todo /\ c.done = done
    BY <1>2
  <1>4. IsSeq(todo) /\ Len(todo) = 1 /\ todo[1] = t
    BY <1>1, OneOf
  <1>5. TaskOK(t) /\ Resting(t) /\ t.do = "go" /\ t.expr = e /\ Pops(t) = 0
    BY <1>1, GoFacts
  <1>6. IsSeq(done) /\ Len(done) = 0
    BY <1>1, NothingIsSeq
  <1>7. First(t, done, dat, m)
    BY <1>5, <1>6, RestingFirst
  <1>8. PICK stacks : stacks = [j \in 0 .. 1 |-> [len |-> j, at |-> [k \in {1} |-> e]]]
    OBVIOUS
  <1>9. stacks[0].len = 0 /\ stacks[1].len = 1 /\ stacks[1].at[1] = e
    BY <1>8
  <1>10. Starts(stacks[0], done, f, n)
    BY <1>6, <1>9 DEF Starts
  <1>11. PICK a, b : a = stacks[0] /\ b = stacks[1]
    OBVIOUS
  <1>12. Runs(t, a, b)
    BY <1>5, <1>9, <1>11 DEF Runs
  <1>13. Ends(todo, stacks, e)
    <2>1. \A j \in 1 .. 1 : j = 1 /\ j - 1 = 0
      OBVIOUS
    <2> QED
      BY <1>4, <1>9, <1>11, <1>12, <2>1 DEF Ends
  <1>14. TasksOK(todo)
    BY <1>4, <1>5 DEF TasksOK
  <1>15. \E s : Starts(s[0], done, f, n) /\ Ends(todo, s, e)
    BY <1>10, <1>13
  <1> QED
    BY <1>2, <1>3, <1>4, <1>6, <1>7, <1>14, <1>15 DEF CompileOK

LEMMA CompileStep ==
  ASSUME CodeInv, NEW expr \in Exprs, compileExpr(expr)
  PROVE  CodeInv'
  <1>1. Starting(compiling', expr) /\ UNCHANGED <<ops, opCount, data, dataCount, code>>
    BY DEF compileExpr, Starting
  <1>2. PICK c, f, n, dat, m : c = compiling' /\ f = Decoded /\ n = opCount /\ dat = data /\ m = dataCount
    OBVIOUS
  <1>3. CompileOK(c, f, n, dat, m)
    BY <1>1, <1>2, Started
  <1> QED
    BY <1>1, <1>2, <1>3, OnlyCompiling

LEMMA DescendStep ==
  ASSUME CodeInv, Descend
  PROVE  CodeInv'
  <1>1. compiling # None /\ compiling.todo # << >> /\ Task.do = "go"
        /\ UNCHANGED <<ops, opCount, data, dataCount, code>>
    BY DEF Descend
  <1>2. PICK c, c2, f, n, dat, m : /\ c = compiling /\ c2 = compiling' /\ f = Decoded /\ n = opCount
                                   /\ dat = data /\ m = dataCount
    OBVIOUS
  <1>3. CompileOK(c, f, n, dat, m) /\ c.todo # << >>
    BY <1>1, <1>2 DEF CodeInv
  <1>4. PICK t, e : t = c.todo[1] /\ e = t.expr
    OBVIOUS
  <1>5. Head(c.todo) = t /\ Task = t /\ t.do = "go"
    BY <1>1, <1>2, <1>3, <1>4, RunFirst DEF Task
  <1>6. PICK last, gos :
          /\ last = IF e.op = "list" THEN EmitWords(e, << >>, None) ELSE Emit(e, None)
          /\ gos = [i \in 1 .. Len(Kids(e)) |-> Go(Kids(e)[i])]
    OBVIOUS
  <1>7. c2 = [c EXCEPT !.todo = gos \o <<last>> \o Tail(@)]
    BY <1>2, <1>4, <1>5, <1>6 DEF Descend, Kids
  <1>8. c2 = [expr |-> c.expr, todo |-> gos \o <<last>> \o Tail(c.todo), done |-> c.done]
    <2>1. c = [expr |-> c.expr, todo |-> c.todo, done |-> c.done]
      BY <1>3 DEF CompileOK
    <2> QED
      BY <1>7, <2>1
  <1>9. DescendsTo(c, c2, e, last, gos)
    BY <1>3, <1>4, <1>5, <1>6, <1>8 DEF DescendsTo
  <1>10. CompileOK(c2, f, n, dat, m)
    BY <1>3, <1>9, Descended
  <1> QED
    BY <1>1, <1>2, <1>10, OnlyCompiling

Compilation(c) == c = [expr |-> c.expr, todo |-> c.todo, done |-> c.done]
PutsFirst(c2, c, t) == c2 = [c EXCEPT !.todo[1] = t]

LEMMA FirstPut ==
  ASSUME NEW c, Compilation(c), IsSeq(c.todo), NEW t, NEW c2, PutsFirst(c2, c, t)
  PROVE  \E todo2 : PutAt(todo2, c.todo, 1, t) /\ c2 = [expr |-> c.expr, todo |-> todo2, done |-> c.done]
  <1>1. PICK todo2 : todo2 = [c.todo EXCEPT ![1] = t]
    OBVIOUS
  <1>2. c2 = [c EXCEPT !.todo = todo2]
    BY <1>1 DEF PutsFirst
  <1>3. c2 = [expr |-> c.expr, todo |-> todo2, done |-> c.done]
    BY <1>2 DEF Compilation
  <1> QED
    BY <1>1, <1>3 DEF PutAt

\* The words of a payload, and one more.
Sends(t, t1, words, m) ==
  /\ Len(t1.words) < Len(words)
  /\ t = EmitWords(t1.expr, SubSeq(words, 1, Len(t1.words) + 1),
                   IF Len(t1.words) = 0 THEN m ELSE t1.off)

LEMMA SentMore ==
  ASSUME NEW words, IsSeq(words), NEW m \in Nat, NEW dat, NEW dat2, AgreeBelow(dat, dat2, m),
         NEW t1, TaskOK(t1), t1.do = "words", Sent(t1, words, dat, m), NEW t, Sends(t, t1, words, m),
         dat2[m] = words[Len(t1.words) + 1], NEW m2, m2 = m + 1
  PROVE  TaskOK(t) /\ t.expr = t1.expr /\ t.do = "words" /\ Sent(t, words, dat2, m2)
  <1>1. PICK e, sent, l, old : e = t1.expr /\ sent = Len(t1.words) /\ l = Len(words) /\ old = t1.off
    OBVIOUS
  <1>2. /\ e \in Exprs /\ e.op = "list" /\ l \in Nat /\ sent \in 0 .. l /\ sent < l
        /\ sent > 0 => /\ old \in Nat /\ old + sent = m /\ WordsLieAt(dat, old, words, sent)
    BY <1>1, TaskFacts DEF Sent, Sends, IsSeq
  <1>3. PICK more, off : /\ more = SubSeq(words, 1, sent + 1)
                         /\ off = IF sent = 0 THEN m ELSE old
    OBVIOUS
  <1>4. t = EmitWords(e, more, off)
    BY <1>1, <1>3 DEF Sends
  <1>5. TaskOK(t) /\ t.do = "words" /\ t.expr = e /\ t.off = off /\ t.words = more
    BY <1>2, <1>4, WordsFacts
  <1>6. Len(more) = sent + 1
    <2>1. PICK S : S = {words[i] : i \in 1 .. Len(words)}
      OBVIOUS
    <2>2. {words[i] : i \in 1 .. Len(words)} \subseteq S
      BY <2>1
    <2>3. words \in Seq(S)
      BY <2>2, SeqIsIn
    <2> QED
      BY <1>1, <1>2, <1>3, <2>3
  <1>7. off \in Nat /\ off + sent = m
    BY <1>2, <1>3
  <1>8. ASSUME NEW k \in 1 .. sent + 1 PROVE dat2[off + k - 1] = words[k]
    <2>1. CASE k = sent + 1
      <3>1. off + k - 1 = m
        BY <1>2, <1>7, <2>1
      <3> QED
        BY <1>1, <2>1, <3>1
    <2>2. CASE k # sent + 1
      <3>1. k \in 1 .. sent /\ sent > 0
        BY <1>2, <2>2
      <3>2. off = old /\ dat[off + k - 1] = words[k]
        BY <1>2, <1>3, <3>1 DEF WordsLieAt
      <3>3. off + k - 1 \in 0 .. m - 1
        BY <1>2, <1>7, <3>1
      <3> QED
        BY <3>2, <3>3 DEF AgreeBelow
    <2> QED
      BY <2>1, <2>2
  <1>9. PICK p : p = sent + 1 /\ p \in 0 .. l /\ off + p = m2
    BY <1>2, <1>7
  <1>10. WordsLieAt(dat2, off, words, p)
    BY <1>8, <1>9 DEF WordsLieAt
  <1>11. Len(t.words) = p /\ Len(words) = l
    BY <1>1, <1>5, <1>6, <1>9
  <1>12. Sent(t, words, dat2, m2)
    BY <1>2, <1>5, <1>7, <1>9, <1>10, <1>11 DEF Sent
  <1> QED
    BY <1>1, <1>5, <1>12

LEMMA AppendWordStep ==
  ASSUME CodeInv, AppendWord
  PROVE  CodeInv'
  <1>1. compiling # None /\ compiling.todo # << >> /\ Task.do = "words" /\ code' = code
    BY DEF AppendWord
  <1>2. PICK c, c2, f, n, dat, m : /\ c = compiling /\ c2 = compiling' /\ f = Decoded /\ n = opCount
                                   /\ dat = data /\ m = dataCount
    OBVIOUS
  <1>3. CompileOK(c, f, n, dat, m) /\ c.todo # << >> /\ n \in Nat /\ m \in Nat /\ Buffers
    BY <1>1, <1>2 DEF CodeInv, Buffers
  <1>4. PICK t1, e, done, words, sent :
          /\ t1 = c.todo[1] /\ e = t1.expr /\ done = c.done
          /\ words = PayloadFor(done, Len(e.kids)) /\ sent = Len(t1.words)
    OBVIOUS
  <1>5. /\ TaskOK(t1) /\ Head(c.todo) = t1 /\ Task = t1 /\ t1.do = "words" /\ t1.do # "go"
        /\ IsSeq(done) /\ First(t1, done, dat, m) /\ Ended(done, Kids(e), f, n)
    <2>1. Head(c.todo) = t1 /\ Task = t1
      BY <1>2, <1>3, <1>4, RunFirst DEF Task
    <2>2. t1.do = "words" /\ t1.do # "go"
      BY <1>1, <2>1
    <2> QED
      BY <1>3, <1>4, <2>1, <2>2, RunFirst
  <1>6. Sent(t1, words, dat, m)
    BY <1>4, <1>5 DEF First
  <1>7. Payload(Len(e.kids)) = words
    BY <1>2, <1>4 DEF Payload, LastDone, PayloadFor, LastOf
  <1>8. e \in Exprs /\ e.op = "list" /\ IsSeq(words) /\ sent \in 0 .. Len(words)
    <2>1. e \in Exprs /\ e.op = "list" /\ sent \in 0 .. Len(words)
      BY <1>4, <1>5, <1>6, TaskFacts DEF Sent
    <2>2. Len(e.kids) \in 0 .. Len(done)
      BY <1>5, <2>1, TreeFacts DEF Ended, IsSeq
    <2>3. IsSeq(words)
      BY <1>4, <1>5, <2>2, PayloadFacts
    <2> QED
      BY <2>1, <2>3
  <1>9. Compilation(c) /\ IsSeq(c.todo)
    BY <1>3 DEF CompileOK, Compilation, TasksOK
  <1>10. CASE /\ sent < Len(words) /\ nn_bc_emit_data(words[sent + 1])
              /\ compiling' = [compiling EXCEPT
                   !.todo[1] = EmitWords(e, SubSeq(words, 1, sent + 1),
                                         IF sent = 0 THEN dataCount ELSE t1.off)]
    <2>1. PICK t, g, dat2, m2 : /\ t = EmitWords(e, SubSeq(words, 1, sent + 1),
                                                  IF sent = 0 THEN m ELSE t1.off)
                                /\ g = Decoded' /\ dat2 = data' /\ m2 = dataCount'
      OBVIOUS
    <2>2. Sends(t, t1, words, m) /\ PutsFirst(c2, c, t)
      BY <1>2, <1>4, <1>10, <2>1 DEF Sends, PutsFirst
    <2>3. PICK word : word = words[sent + 1]
      OBVIOUS
    <2>4. /\ Buffers' /\ AgreeBelow(Decoded, Decoded', opCount)
          /\ ops' = ops /\ opCount' = opCount /\ dataCount' = dataCount + 1
          /\ data'[dataCount] = word /\ AgreeBelow(data, data', dataCount)
      BY <1>3, <1>10, <2>3, DataAppended
    <2>5. AgreeBelow(f, g, n) /\ m2 = m + 1 /\ dat2[m] = word /\ AgreeBelow(dat, dat2, m)
      BY <1>2, <2>1, <2>4
    <2>6. TaskOK(t) /\ t.expr = e /\ t.do = "words" /\ Sent(t, words, dat2, m2)
      <3>1. dat2[m] = words[Len(t1.words) + 1]
        BY <1>4, <2>3, <2>5
      <3>2. TaskOK(t) /\ t.expr = t1.expr /\ t.do = "words" /\ Sent(t, words, dat2, m2)
        BY <1>3, <1>5, <1>6, <1>8, <2>2, <2>5, <3>1, SentMore
      <3> QED
        BY <1>4, <3>2
    <2>7. First(t, done, dat2, m2)
      BY <1>4, <2>6 DEF First
    <2>8. PICK todo2 : PutAt(todo2, c.todo, 1, t) /\ c2 = [expr |-> c.expr, todo |-> todo2, done |-> c.done]
      BY <1>9, <2>2, FirstPut
    <2>9. CompileOK(c2, g, n, dat2, m2)
      <3>1. t.do # "go" /\ c.todo[1].do # "go" /\ t.expr = c.todo[1].expr /\ First(t, c.done, dat2, m2)
        BY <1>4, <1>5, <2>6, <2>7
      <3> QED
        BY <1>3, <2>5, <2>6, <2>8, <3>1, Advanced
    <2>10. opCount' \in Nat /\ opCount <= opCount'
      BY <1>2, <1>3, <2>4
    <2>11. CompileOK(compiling', Decoded', opCount', data', dataCount')
      BY <1>2, <2>1, <2>4, <2>9
    <2> QED
      BY <1>1, <2>4, <2>10, <2>11, OnlyAppending
  <1>11. CASE /\ sent = Len(words) /\ UNCHANGED <<ops, opCount, data, dataCount>>
              /\ compiling' = [compiling EXCEPT !.todo[1] = Emit(e, IF sent = 0 THEN 0 ELSE t1.off)]
    <2>1. PICK t, off : off = (IF sent = 0 THEN 0 ELSE t1.off) /\ t = Emit(e, off)
      OBVIOUS
    <2>2. PutsFirst(c2, c, t)
      BY <1>2, <1>11, <2>1 DEF PutsFirst
    <2>3. TaskOK(t) /\ t.do = "emit" /\ t.expr = e /\ t.off = off
      BY <1>8, <2>1, EmitFacts
    <2>4. off \in Nat /\ off + Len(words) <= m /\ WordsLieAt(dat, off, words, Len(words))
      <3>1. PICK l : l = Len(words) /\ l = sent /\ l \in Nat
        BY <1>8, <1>11
      <3>2. CASE l = 0
        BY <1>3, <2>1, <3>1, <3>2 DEF WordsLieAt
      <3>3. CASE l > 0
        <4>1. t1.off \in Nat /\ t1.off + l = m /\ WordsLieAt(dat, t1.off, words, l)
          BY <1>4, <1>5, <1>6, <3>1, <3>3 DEF Sent
        <4>2. off = t1.off
          BY <2>1, <3>1, <3>3
        <4> QED
          BY <1>3, <3>1, <4>1, <4>2
      <3> QED
        BY <3>1, <3>2, <3>3
    <2>5. First(t, done, dat, m)
      <3>1. Sent(t, words, dat, m)
        BY <2>3, <2>4 DEF Sent
      <3> QED
        BY <1>4, <2>3, <3>1 DEF First
    <2>6. PICK todo2 : PutAt(todo2, c.todo, 1, t) /\ c2 = [expr |-> c.expr, todo |-> todo2, done |-> c.done]
      BY <1>9, <2>2, FirstPut
    <2>7. CompileOK(c2, f, n, dat, m)
      <3>1. t.do # "go" /\ c.todo[1].do # "go" /\ t.expr = c.todo[1].expr /\ First(t, c.done, dat, m)
        BY <1>4, <1>5, <2>3, <2>5
      <3>2. AgreeBelow(f, f, n)
        BY DEF AgreeBelow
      <3> QED
        BY <1>3, <2>3, <2>6, <3>1, <3>2, Advanced
    <2> QED
      BY <1>1, <1>2, <1>11, <2>7, OnlyCompiling
  <1> QED
    BY <1>4, <1>5, <1>7, <1>10, <1>11 DEF AppendWord

LEMMA AppendOpStep ==
  ASSUME CodeInv, AppendOp
  PROVE  CodeInv'
  <1>1. compiling # None /\ compiling.todo # << >> /\ Task.do = "emit" /\ code' = code
    BY DEF AppendOp
  <1>2. PICK c, c2, f, n, dat, m : /\ c = compiling /\ c2 = compiling' /\ f = Decoded /\ n = opCount
                                   /\ dat = data /\ m = dataCount
    OBVIOUS
  <1>3. CompileOK(c, f, n, dat, m) /\ c.todo # << >> /\ n \in Nat /\ m \in Nat /\ Buffers
    BY <1>1, <1>2 DEF CodeInv, Buffers
  <1>4. PICK t, e, done, words : /\ t = c.todo[1] /\ e = t.expr /\ done = c.done
                                 /\ words = PayloadFor(done, Len(e.kids))
    OBVIOUS
  <1>5. /\ TaskOK(t) /\ Head(c.todo) = t /\ Task = t /\ t.do = "emit" /\ t.do # "go"
        /\ IsSeq(done) /\ First(t, done, dat, m) /\ Ended(done, Kids(e), f, n)
    <2>1. Head(c.todo) = t /\ Task = t
      BY <1>2, <1>3, <1>4, RunFirst DEF Task
    <2>2. t.do = "emit" /\ t.do # "go"
      BY <1>1, <2>1
    <2> QED
      BY <1>3, <1>4, <2>1, <2>2, RunFirst
  <1>6. e \in Exprs /\ (e.op = "list" => t.off \in Nat /\ t.off + Len(words) <= m
                                         /\ WordsLieAt(dat, t.off, words, Len(words)))
    BY <1>4, <1>5, TaskFacts DEF First, Sent
  <1>7. PICK o, off : off = t.off /\ o = EncodedBy(e, off, done)
    OBVIOUS
  <1>8. Encoded(Task.expr, Task.off) = o
    BY <1>2, <1>4, <1>5, <1>7 DEF Encoded, EncodedBy, LastDone, LastOf
  <1>9. Meaning(o, dat, n, f) = e /\ (o.op = "list" => PayloadLies(o, dat, m))
    <2>1. Encodes(o, e, off, done, dat, m)
      BY <1>4, <1>6, <1>7 DEF WordsSent, Encodes
    <2>2. StandsFor(o, e, f, n, dat, m)
      BY <1>3, <1>5, <1>6, <2>1, EncodedMeans
    <2> QED
      BY <2>2 DEF StandsFor
  <1>10. nn_bc_emit(o)
    BY <1>8 DEF AppendOp
  <1>11. /\ Buffers' /\ AgreeBelow(Decoded, Decoded', opCount)
         /\ data' = data /\ dataCount' = dataCount /\ opCount' = opCount + 1
         /\ Decoded'[opCount] = Meaning(o, data, opCount, Decoded)
    <2>1. o.op = "list" => PayloadLies(o, data, dataCount)
      BY <1>2, <1>9
    <2> QED
      BY <1>3, <1>10, <2>1, OpAppended
  <1>12. PICK g : g = Decoded'
    OBVIOUS
  <1>13. AgreeBelow(f, g, n) /\ g[n] = e
    BY <1>2, <1>9, <1>11, <1>12
  <1>14. PICK p : p = Len(Kids(e))
    OBVIOUS
  <1>15. (IF e.op = "var" THEN 0 ELSE Len(e.kids)) = p
    BY <1>6, <1>14, NothingIsSeq DEF Kids
  <1>16. c2 = [c EXCEPT !.todo = Tail(@), !.done = Append(SubSeq(@, 1, Len(@) - p), n)]
    BY <1>2, <1>4, <1>5, <1>15 DEF AppendOp
  <1>17. Finishes(c, c2, p, n)
    <2>1. Compilation(c)
      BY <1>3 DEF CompileOK, Compilation
    <2>2. c2 = [expr |-> c.expr, todo |-> Tail(c.todo),
                done |-> Append(SubSeq(c.done, 1, Len(c.done) - p), n)]
      BY <1>16, <2>1 DEF Compilation
    <2> QED
      BY <2>2 DEF Finishes
  <1>18. CompileOK(c2, g, n + 1, dat, m)
    <2>1. c.todo[1].do # "go" /\ p = Len(Kids(c.todo[1].expr)) /\ g[n] = c.todo[1].expr
      BY <1>4, <1>5, <1>13, <1>14
    <2> QED
      BY <1>3, <1>13, <1>17, <2>1, Finished
  <1>19. CompileOK(compiling', Decoded', opCount', data', dataCount')
    BY <1>2, <1>11, <1>12, <1>18
  <1>20. opCount' \in Nat /\ opCount <= opCount'
    BY <1>2, <1>3, <1>11
  <1> QED
    BY <1>1, <1>11, <1>19, <1>20, OnlyAppending

LEMMA CompiledStep ==
  ASSUME CodeInv, Compiled
  PROVE  CodeInv'
  <1>1. compiling # None /\ compiling.todo = << >> /\ compiling' = None
        /\ UNCHANGED <<ops, opCount, data, dataCount>>
        /\ code' = code \cup {[idx |-> compiling.done[1], expr |-> compiling.expr]}
    BY DEF Compiled
  <1>2. Buffers' /\ Decoded' = Decoded /\ opCount' = opCount
    BY <1>1, CodeSame DEF CodeInv
  <1>3. PICK c, f, n, dat, m : c = compiling /\ f = Decoded /\ n = opCount /\ dat = data /\ m = dataCount
    OBVIOUS
  <1>4. CompileOK(c, f, n, dat, m)
    BY <1>1, <1>3 DEF CodeInv
  <1>5. PICK stacks : Starts(stacks[0], c.done, f, n) /\ Ends(c.todo, stacks, c.expr)
    BY <1>4 DEF CompileOK
  <1>6. stacks[0].len = 1 /\ stacks[0].at[1] = c.expr
    BY <1>1, <1>3, <1>5, NothingIsSeq DEF Ends
  <1>7. Means(f, n, c.done[1], c.expr)
    <2>1. 1 \in 1 .. Len(c.done)
      BY <1>5, <1>6 DEF Starts
    <2> QED
      BY <1>5, <1>6, <2>1 DEF Starts
  <1>8. ASSUME NEW b \in code' PROVE Means(f, n, b.idx, b.expr)
    <2>1. CASE b \in code
      BY <1>3, <2>1 DEF CodeInv, CodeMeans
    <2>2. CASE b = [idx |-> c.done[1], expr |-> c.expr]
      BY <1>7, <2>2
    <2> QED
      BY <1>1, <1>3, <2>1, <2>2
  <1>9. CodeMeans(Decoded, opCount)'
    BY <1>2, <1>3, <1>8 DEF CodeMeans
  <1>10. (compiling # None => CompileOK(compiling, Decoded, opCount, data, dataCount))'
    BY <1>1
  <1> QED
    BY <1>2, <1>9, <1>10 DEF CodeInv

LEMMA BytecodeStep ==
  ASSUME CodeInv, BytecodeNext
  PROVE  CodeInv'
  <1>1. CASE \E expr \in Exprs : compileExpr(expr)
    BY <1>1, CompileStep
  <1>2. CASE Descend
    BY <1>2, DescendStep
  <1>3. CASE AppendWord
    BY <1>3, AppendWordStep
  <1>4. CASE AppendOp
    BY <1>4, AppendOpStep
  <1>5. CASE Compiled
    BY <1>5, CompiledStep
  <1>6. CASE CompileRefused
    BY <1>6, OnlyCompiling DEF CompileRefused
  <1> QED
    BY <1>1, <1>2, <1>3, <1>4, <1>5, <1>6 DEF BytecodeNext

-----------------------------------------------------------------------------
(* The code's store, opened and torn down with the others.                  *)

LEMMA CodeAbsent == NoBytecode => CodeInv
  <1> SUFFICES ASSUME NoBytecode PROVE CodeInv
    OBVIOUS
  <1>1. ops = << >> /\ opCount = 0 /\ data = << >> /\ dataCount = 0 /\ compiling = None /\ code = {}
    BY DEF NoBytecode
  <1>2. Block(<< >>) /\ SizeOf(<< >>) = 0
    <2>1. PICK b : b = << >>
      OBVIOUS
    <2>2. DOMAIN b = 0 .. 0 - 1
      BY <2>1
    <2>3. Block(b) /\ SizeOf(b) = 0
      BY <2>2, BlockOf
    <2> QED
      BY <2>1, <2>3
  <1>3. Buffers
    BY <1>1, <1>2 DEF Buffers, PayloadsLie, nn_bytecode_live
  <1> QED
    BY <1>1, <1>3 DEF CodeInv, CodeMeans

\* The reserved applications decode to what every deferred one is compiled to.
LEMMA BytecodeOpens ==
  ASSUME nn_bytecode_init
  PROVE  CodeInv'
  <1>1. PICK os, dat, n, m : os = ops' /\ dat = data' /\ n = opCount' /\ m = dataCount'
    OBVIOUS
  <1>2. /\ os = [i \in 0 .. OpCapacity - 1 |->
                   IF i < Len(g_reserved_ops) THEN g_reserved_ops[i + 1] ELSE Junk]
        /\ n = Len(g_reserved_ops) /\ dat = NewBlock(DataCapacity, Junk) /\ m = 0
        /\ compiling' = None /\ code' = {[idx |-> 2, expr |-> Apply1], [idx |-> 4, expr |-> Apply2]}
    BY <1>1 DEF nn_bytecode_init
  <1>3. /\ Len(g_reserved_ops) = 5
        /\ g_reserved_ops[1] = Instruction("var", 0, 0, 0) /\ g_reserved_ops[2] = Instruction("var", 0, 0, 1)
        /\ g_reserved_ops[3] = Instruction("deferred", 0, 0, 1)
        /\ g_reserved_ops[4] = Instruction("var", 0, 0, 2)
        /\ g_reserved_ops[5] = Instruction("deferred", 0, 2, 3)
    BY DEF g_reserved_ops
  <1>4. OpCapacity \in Nat /\ OpCapacity >= 5 /\ DataCapacity \in Nat /\ DataCapacity > 0
    BY BytecodeSizes
  <1>5. Block(os) /\ SizeOf(os) = OpCapacity /\ Block(dat) /\ SizeOf(dat) = DataCapacity
    <2>1. DOMAIN os = 0 .. OpCapacity - 1 /\ DOMAIN dat = 0 .. DataCapacity - 1
      BY <1>2 DEF NewBlock
    <2> QED
      BY <1>4, <2>1, BlockOf
  <1>6. /\ os[0] = Instruction("var", 0, 0, 0) /\ os[1] = Instruction("var", 0, 0, 1)
        /\ os[2] = Instruction("deferred", 0, 0, 1) /\ os[3] = Instruction("var", 0, 0, 2)
        /\ os[4] = Instruction("deferred", 0, 2, 3)
    BY <1>2, <1>3, <1>4
  <1>7. PayloadsLie(os, n, dat, m)
    <2>1. ASSUME NEW i \in 0 .. n - 1 PROVE os[i].op # "list"
      <3>1. i \in {0, 1, 2, 3, 4}
        BY <1>2, <1>3
      <3> QED
        BY <1>6, <3>1 DEF Instruction
    <2> QED
      BY <2>1 DEF PayloadsLie
  <1>8. Buffers'
    BY <1>1, <1>2, <1>3, <1>4, <1>5, <1>7 DEF Buffers
  <1>9. PICK f : f = Decoded'
    OBVIOUS
  <1>10. Decodes(f, os, dat, n) /\ n = 5
    <2>1. Decodes(Decoded, ops, data, opCount)'
      BY <1>8, BuffersDecode, PTL
    <2> QED
      BY <1>1, <1>2, <1>3, <1>9, <2>1
  <1>11. \A i \in 0 .. 5 - 1 : f[i] = Meaning(os[i], dat, i, f)
    BY <1>10, DecodesAt
  <1>12. f[0] = Var(0, 0) /\ f[1] = Var(0, 1) /\ f[3] = Var(0, 2)
    <2>1. 0 \in 0 .. 5 - 1 /\ 1 \in 0 .. 5 - 1 /\ 3 \in 0 .. 5 - 1
      OBVIOUS
    <2>2. Meaning(os[0], dat, 0, f) = Var(0, 0)
      BY <1>6 DEF Meaning, Instruction
    <2>3. Meaning(os[1], dat, 1, f) = Var(0, 1)
      BY <1>6 DEF Meaning, Instruction
    <2>4. Meaning(os[3], dat, 3, f) = Var(0, 2)
      BY <1>6 DEF Meaning, Instruction
    <2> QED
      BY <1>11, <2>1, <2>2, <2>3, <2>4
  <1>13. f[2] = Apply1
    <2>1. PICK o : o = os[2] /\ o.op = "deferred" /\ o.arg1 = 0 /\ o.arg2 = 1
      BY <1>6 DEF Instruction
    <2>2. Meaning(o, dat, 2, f) = App("deferred", f[0], f[1])
      BY <2>1 DEF Meaning
    <2>3. f[2] = Meaning(os[2], dat, 2, f)
      BY <1>11
    <2> QED
      BY <1>12, <2>1, <2>2, <2>3 DEF Apply1
  <1>14. f[4] = Apply2
    <2>1. PICK o : o = os[4] /\ o.op = "deferred" /\ o.arg1 = 2 /\ o.arg2 = 3
      BY <1>6 DEF Instruction
    <2>2. Meaning(o, dat, 4, f) = App("deferred", f[2], f[3])
      BY <2>1 DEF Meaning
    <2>3. f[4] = Meaning(os[4], dat, 4, f)
      BY <1>11
    <2> QED
      BY <1>12, <1>13, <2>1, <2>2, <2>3 DEF Apply2
  <1>15. CodeMeans(Decoded, opCount)'
    <2>1. ASSUME NEW c \in code' PROVE Means(f, n, c.idx, c.expr)
      BY <1>2, <1>10, <1>13, <1>14, <2>1 DEF Means
    <2> QED
      BY <1>1, <1>9, <2>1 DEF CodeMeans
  <1>16. (compiling # None => CompileOK(compiling, Decoded, opCount, data, dataCount))'
    BY <1>2
  <1> QED
    BY <1>8, <1>15, <1>16 DEF CodeInv

LEMMA CodeDecoded == CodeInv => CodeDecodes
  <1>1. SUFFICES ASSUME CodeInv PROVE CodeDecodes
    OBVIOUS
  <1>2. ASSUME NEW c \in code PROVE Decoded[c.idx] = c.expr
    BY <1>1 DEF CodeInv, CodeMeans, Means
  <1> QED
    BY <1>1, <1>2 DEF CodeInv, Buffers, CodeDecodes

LEMMA StepCode == CodeInv /\ [Next]_vars => CodeInv'
  <1>1. SUFFICES ASSUME CodeInv, [Next]_vars PROVE CodeInv'
    OBVIOUS
  <1>2. CASE nn_bytecode_init
    BY <1>2, BytecodeOpens
  <1>3. CASE nn_bytecode_destroy
    <2>1. NoBytecode'
      BY <1>3 DEF nn_bytecode_destroy, NoBytecode
    <2> QED
      BY <2>1, CodeAbsent, PTL
  <1>4. CASE BytecodeNext
    BY <1>1, <1>4, BytecodeStep
  <1>5. CASE UNCHANGED bytecodeVars
    <2>1. UNCHANGED <<ops, opCount, data, dataCount, code>> /\ compiling' = compiling
      BY <1>5 DEF bytecodeVars
    <2>2. compiling' # None => CompileOK(compiling', Decoded, opCount, data, dataCount)
      BY <1>1, <2>1 DEF CodeInv
    <2> QED
      BY <1>1, <2>1, <2>2, OnlyCompiling
  <1> QED
    BY <1>1, <1>2, <1>3, <1>4, <1>5 DEF Next, arenaInit, arenaDestroy, Use, vars

LEMMA Code == Spec => []CodeInv
  <1>1. Init => CodeInv
    BY CodeAbsent DEF Init
  <1> QED
    BY <1>1, StepCode, PTL DEF Spec

\* Whatever is compiled, grown, refused half way or abandoned, for any capacities
\* and however long the lists: the code at every index ever answered stays that of
\* its expression, and its operand words are never another's (nn_bytecode.c,
\* Compile.hs).
THEOREM CodeStaysDecodable == Spec => []CodeDecodes
  BY Code, CodeDecoded, PTL

=============================================================================
