------------------------------ MODULE AttrSets ------------------------------
(***************************************************************************)
(* The attribute sets of the C data layer (cbits/nn_attrset.c): arrays of  *)
(* keys, positions and values that are filled in any order, sorted and     *)
(* deduplicated by one freeze, and then searched by halves and merged.     *)
(*                                                                         *)
(* Keys and positions share one block of memory, the positions after as    *)
(* many keys as the set has room for; the values have a block of their     *)
(* own.  The loops of freeze, union, remove_keys and the search take one   *)
(* step an iteration, on the very arrays; `op' is the call in progress and *)
(* its locals.  Whatever malloc or realloc is asked for may be refused.    *)
(***************************************************************************)
EXTENDS Naturals

CONSTANTS Keys,             \* symbols: numbers, which is what is compared
          MaxEntries,       \* NN_ATTRSET_MAX_ENTRIES, UINT32_MAX in the code
          DefaultCapacity,  \* the room of a set that was asked for none
          SmallSort,        \* up to so many entries are sorted in place
          Capacities,       \* the room callers ask for
          Removals,         \* the keys they remove together
          Lookups,          \* the keys they look for
          MaxSets,          \* bound of the model: sets made before a teardown
          MaxWrites,        \* bound of the model: positions and values given out
          Junk,             \* what fresh memory holds
          Absent            \* no entry, and no set

ASSUME AttrSetSizes ==
  /\ Keys \subseteq Nat
  /\ MaxEntries \in Nat /\ DefaultCapacity \in 1 .. MaxEntries
  /\ SmallSort \in Nat
  /\ Capacities \subseteq 0 .. MaxEntries
  /\ Removals \subseteq SUBSET Keys /\ Lookups \subseteq Keys
  /\ MaxWrites \in Nat
  /\ MaxSets \in Nat

VARIABLES
  sets,     \* every set, by handle
  tracked,  \* how many were made: they are what the teardown frees
  given,    \* those a caller holds: not the result of a union that was refused
  op,       \* the call in progress
  writes    \* positions and values given out so far

vars == <<sets, tracked, given, op, writes>>

-----------------------------------------------------------------------------
Handles == 1 .. MaxSets
Words == 1 .. MaxWrites
Entry == [key : Keys, pos : Words, value : Words]

Blank == [names |-> [w \in {} |-> Junk], values |-> [w \in {} |-> Junk],
          count |-> 0, capacity |-> 0, frozen |-> FALSE]

\* Entry i of a set, across its arrays, and what writing it does to them.
At(s, i) == [key |-> s.names[i], pos |-> s.names[s.capacity + i], value |-> s.values[i]]

Put(s, i, e) == [s EXCEPT !.names = [@ EXCEPT ![i] = e.key, ![s.capacity + i] = e.pos],
                          !.values = [@ EXCEPT ![i] = e.value]]

Key(s, i) == s.names[i]

\* realloc: what was there, and then anything.
Resized(block, size) ==
  [w \in 0 .. size - 1 |-> IF w \in DOMAIN block THEN block[w] ELSE Junk]

\* The positions move up to the new capacity (memmove).
WithRoom(s, room) ==
  LET names == Resized(s.names, 2 * room)
  IN  [s EXCEPT !.names = [w \in 0 .. 2 * room - 1 |->
                             IF w \in room .. room + s.count - 1
                             THEN names[s.capacity + (w - room)] ELSE names[w]],
                !.values = Resized(@, room),
                !.capacity = room]

Doubled(s) == IF 2 * s.capacity > MaxEntries THEN MaxEntries ELSE 2 * s.capacity

\* How grow may end: refused, refused with the values already larger, or done.
grow(s) ==
  IF s.capacity >= MaxEntries THEN {[ok |-> FALSE, set |-> s]}
  ELSE {[ok |-> FALSE, set |-> s],
        [ok |-> FALSE, set |-> [s EXCEPT !.values = Resized(@, Doubled(s))]],
        [ok |-> TRUE, set |-> WithRoom(s, Doubled(s))]}

Appended(s, e) == [Put(s, s.count, e) EXCEPT !.count = @ + 1]

\* How nn_attrset_insert may end: what it answers, and the set after it.
nn_attrset_insert(s, e) ==
  IF s.count < s.capacity THEN {[ok |-> TRUE, set |-> Appended(s, e)]}
  ELSE {IF g.ok THEN [g EXCEPT !.set = Appended(@, e)] ELSE g : g \in grow(s)}

-----------------------------------------------------------------------------
Idle == [kind |-> "none", set |-> 0, a |-> 0, b |-> 0, i |-> 0, j |-> 0,
         entry |-> Absent, keys |-> {}]

Call(kind, h) == [Idle EXCEPT !.kind = kind, !.set = h]

Free == op.kind = "none"
Frozen(h) == h \in given /\ sets[h].frozen
S == sets[op.set]

\* nn_attrset_new: three allocations and a place among the tracked ones.
Made(capacity) ==
  LET room == IF capacity = 0 THEN DefaultCapacity ELSE capacity
  IN  [Blank EXCEPT !.names = [w \in 0 .. 2 * room - 1 |-> Junk],
                    !.values = [w \in 0 .. room - 1 |-> Junk],
                    !.capacity = room]

Make(capacity) ==
  /\ tracked + 1 \in Handles
  /\ tracked' = tracked + 1
  /\ sets' = [sets EXCEPT ![tracked + 1] = Made(capacity)]

nn_attrset_new(capacity) ==
  /\ Free
  /\ Make(capacity)
  /\ given' = given \cup {tracked + 1}
  /\ UNCHANGED <<op, writes>>

\* A set is filled by one action of the caller, from new to freeze; the values it
\* inserts may be forced there, and fill younger sets meanwhile.
Building(h) == /\ h \in given /\ ~ sets[h].frozen
               /\ \A g \in given : g > h => sets[g].frozen

\* The caller inserts until it freezes.
Insert(h) ==
  /\ Free /\ Building(h)
  /\ writes < MaxWrites
  /\ \E k \in Keys :
       \E r \in nn_attrset_insert(sets[h], [key |-> k, pos |-> writes + 1,
                                            value |-> writes + 1]) :
         /\ sets' = [sets EXCEPT ![h] = r.set]
         /\ writes' = IF r.ok THEN writes + 1 ELSE writes
  /\ UNCHANGED <<tracked, given, op>>

nn_attrset_set_value(h) ==
  /\ Free /\ Frozen(h)
  /\ writes < MaxWrites
  /\ \E i \in 0 .. sets[h].count - 1 :
       sets' = [sets EXCEPT ![h].values[i] = writes + 1]
  /\ writes' = writes + 1
  /\ UNCHANGED <<tracked, given, op>>

-----------------------------------------------------------------------------
(* nn_attrset_freeze: a stable sort by key, then one entry for each key.    *)

Freeze(h) ==
  /\ Free /\ Building(h)
  /\ IF sets[h].count <= 1
     THEN /\ sets' = [sets EXCEPT ![h].frozen = TRUE]
          /\ UNCHANGED op
     ELSE /\ op' = [Call("sort", h) EXCEPT !.i = 1]
          /\ UNCHANGED sets
  /\ UNCHANGED <<tracked, given, writes>>

\* qsort of entries tagged with their index, by key and then by index.
cmp_tagged(s, m, n) == Key(s, m) < Key(s, n) \/ (Key(s, m) = Key(s, n) /\ m < n)

Sorting(s) == {place \in [0 .. s.count - 1 -> 0 .. s.count - 1] :
                 \A m, n \in 0 .. s.count - 1 : m < n => cmp_tagged(s, place[m], place[n])}

Rearranged(s, place) ==
  LET In(w) == w \in 0 .. s.count - 1
  IN  [s EXCEPT !.names = [w \in DOMAIN s.names |->
                   IF In(w) THEN s.names[place[w]]
                   ELSE IF w >= s.capacity /\ In(w - s.capacity)
                        THEN s.names[s.capacity + place[w - s.capacity]] ELSE s.names[w]],
                !.values = [w \in DOMAIN s.values |->
                   IF In(w) THEN s.values[place[w]] ELSE s.values[w]]]

qsort ==
  /\ op.kind = "sort" /\ op.i = 1 /\ S.count > SmallSort
  /\ \E place \in Sorting(S) : sets' = [sets EXCEPT ![op.set] = Rearranged(@, place)]
  /\ op' = Call("dedup", op.set)
  /\ UNCHANGED <<tracked, given, writes>>

\* The insertion sort: of small sets, and of large ones when malloc refuses.
SortPick ==
  /\ op.kind = "sort" /\ op.i < S.count
  /\ op' = [op EXCEPT !.kind = "sift", !.j = op.i, !.entry = At(S, op.i)]
  /\ UNCHANGED <<sets, tracked, given, writes>>

\* An entry also passes those with its own key: the sort is not stable.
SortShift_PastEqual ==
  /\ op.kind = "sift" /\ op.j > 0 /\ Key(S, op.j - 1) >= op.entry.key
  /\ sets' = [sets EXCEPT ![op.set] = Put(@, op.j, At(@, op.j - 1))]
  /\ op' = [op EXCEPT !.j = @ - 1]
  /\ UNCHANGED <<tracked, given, writes>>

SortShift ==
  /\ op.kind = "sift" /\ op.j > 0 /\ Key(S, op.j - 1) > op.entry.key
  /\ sets' = [sets EXCEPT ![op.set] = Put(@, op.j, At(@, op.j - 1))]
  /\ op' = [op EXCEPT !.j = @ - 1]
  /\ UNCHANGED <<tracked, given, writes>>

SortPlace ==
  /\ op.kind = "sift" /\ (op.j > 0 => Key(S, op.j - 1) <= op.entry.key)
  /\ sets' = [sets EXCEPT ![op.set] = Put(@, op.j, op.entry)]
  /\ op' = [op EXCEPT !.kind = "sort", !.i = @ + 1]
  /\ UNCHANGED <<tracked, given, writes>>

SortDone ==
  /\ op.kind = "sort" /\ op.i >= S.count
  /\ op' = Call("dedup", op.set)
  /\ UNCHANGED <<sets, tracked, given, writes>>

\* i reads and j writes.
SameKeyNext == op.i + 1 < S.count /\ Key(S, op.i) = Key(S, op.i + 1)

DedupSkip ==
  /\ op.kind = "dedup" /\ op.i < S.count /\ SameKeyNext
  /\ op' = [op EXCEPT !.i = @ + 1]
  /\ UNCHANGED <<sets, tracked, given, writes>>

DedupKeep ==
  /\ op.kind = "dedup" /\ op.i < S.count /\ ~ SameKeyNext
  /\ sets' = [sets EXCEPT ![op.set] = Put(@, op.j, At(@, op.i))]
  /\ op' = [op EXCEPT !.i = @ + 1, !.j = @ + 1]
  /\ UNCHANGED <<tracked, given, writes>>

DedupDone ==
  /\ op.kind = "dedup" /\ op.i >= S.count
  /\ sets' = [sets EXCEPT ![op.set].count = op.j, ![op.set].frozen = TRUE]
  /\ op' = Idle
  /\ UNCHANGED <<tracked, given, writes>>

-----------------------------------------------------------------------------
(* bsearch_key, for nn_attrset_lookup and nn_attrset_index: i is lo, j hi.  *)

Search(h, k) ==
  /\ Free /\ Frozen(h)
  /\ op' = [Call("search", h) EXCEPT !.j = sets[h].count, !.keys = {k}]
  /\ UNCHANGED <<sets, tracked, given, writes>>

Mid == op.i + ((op.j - op.i) \div 2)
Sought == CHOOSE k \in op.keys : TRUE

SearchRight ==
  /\ op.kind = "search" /\ op.i < op.j /\ Key(S, Mid) < Sought
  /\ op' = [op EXCEPT !.i = Mid + 1]
  /\ UNCHANGED <<sets, tracked, given, writes>>

SearchLeft ==
  /\ op.kind = "search" /\ op.i < op.j /\ Key(S, Mid) > Sought
  /\ op' = [op EXCEPT !.j = Mid]
  /\ UNCHANGED <<sets, tracked, given, writes>>

SearchEnds ==
  /\ op.kind = "search" /\ (op.i < op.j => Key(S, Mid) = Sought)
  /\ op' = [Call("answer", op.set) EXCEPT
              !.entry = IF op.i < op.j THEN At(S, Mid) ELSE Absent]
  /\ UNCHANGED <<sets, tracked, given, writes>>

Return ==
  /\ op.kind = "answer"
  /\ op' = Idle
  /\ UNCHANGED <<sets, tracked, given, writes>>

-----------------------------------------------------------------------------
(* The set operations make a new set out of frozen ones.                    *)

nn_attrset_union(a, b) ==
  LET total == sets[a].count + sets[b].count
  IN  /\ Free /\ Frozen(a) /\ Frozen(b)
      /\ Make(IF total > MaxEntries THEN MaxEntries ELSE total)
      /\ op' = [Call("union", tracked + 1) EXCEPT !.a = a, !.b = b]
      /\ UNCHANGED <<given, writes>>

LeftOver  == op.i < sets[op.a].count
RightOver == op.j < sets[op.b].count
KeyA == Key(sets[op.a], op.i)
KeyB == Key(sets[op.b], op.j)

\* One insertion of the loop; a refused one ends the call, and nobody gets
\* the set it was for.
Copy(e, next) ==
  /\ \E r \in nn_attrset_insert(S, e) :
       /\ sets' = [sets EXCEPT ![op.set] = r.set]
       /\ op' = IF r.ok THEN next ELSE Idle
  /\ UNCHANGED <<tracked, given, writes>>

MergeLeft ==
  /\ op.kind = "union" /\ LeftOver /\ (RightOver => KeyA < KeyB)
  /\ Copy(At(sets[op.a], op.i), [op EXCEPT !.i = @ + 1])

MergeRight ==
  /\ op.kind = "union" /\ RightOver /\ (LeftOver => KeyA > KeyB)
  /\ Copy(At(sets[op.b], op.j), [op EXCEPT !.j = @ + 1])

\* The left side is not moved past the key they share.
MergeBoth_RightOnly ==
  /\ op.kind = "union" /\ LeftOver /\ RightOver /\ KeyA = KeyB
  /\ Copy(At(sets[op.b], op.j), [op EXCEPT !.j = @ + 1])

MergeBoth ==
  /\ op.kind = "union" /\ LeftOver /\ RightOver /\ KeyA = KeyB
  /\ Copy(At(sets[op.b], op.j), [op EXCEPT !.i = @ + 1, !.j = @ + 1])

nn_attrset_remove_keys(a, keys) ==
  /\ Free /\ Frozen(a)
  /\ Make(sets[a].count)
  /\ op' = [Call("remove", tracked + 1) EXCEPT !.a = a, !.keys = keys]
  /\ UNCHANGED <<given, writes>>

RemoveKeep ==
  /\ op.kind = "remove" /\ LeftOver /\ KeyA \notin op.keys
  /\ Copy(At(sets[op.a], op.i), [op EXCEPT !.i = @ + 1])

RemoveSkip ==
  /\ op.kind = "remove" /\ LeftOver /\ KeyA \in op.keys
  /\ op' = [op EXCEPT !.i = @ + 1]
  /\ UNCHANGED <<sets, tracked, given, writes>>

\* The result is sorted already.
CopyDone ==
  /\ \/ op.kind = "union" /\ ~ LeftOver /\ ~ RightOver
     \/ op.kind = "remove" /\ ~ LeftOver
  /\ sets' = [sets EXCEPT ![op.set].frozen = TRUE]
  /\ given' = given \cup {op.set}
  /\ op' = Idle
  /\ UNCHANGED <<tracked, writes>>

\* The teardown frees every set that was made, whoever holds it, and ends the
\* use of the evaluator.
nn_attrset_free_all ==
  /\ Free
  /\ sets' = [h \in Handles |-> Blank]
  /\ tracked' = 0
  /\ given' = {}
  /\ op' = Call("over", 0)
  /\ UNCHANGED writes

-----------------------------------------------------------------------------
Init ==
  /\ sets = [h \in Handles |-> Blank]
  /\ tracked = 0 /\ given = {}
  /\ op = Idle
  /\ writes = 0

Step ==
  \/ qsort \/ SortPick \/ SortShift \/ SortPlace \/ SortDone
  \/ DedupSkip \/ DedupKeep \/ DedupDone
  \/ SearchRight \/ SearchLeft \/ SearchEnds \/ Return
  \/ MergeLeft \/ MergeRight \/ MergeBoth
  \/ RemoveKeep \/ RemoveSkip \/ CopyDone

Next ==
  \/ \E c \in Capacities : nn_attrset_new(c)
  \/ \E h \in Handles : Insert(h) \/ nn_attrset_set_value(h) \/ Freeze(h)
  \/ \E h \in Handles, k \in Lookups : Search(h, k)
  \/ \E a, b \in Handles : nn_attrset_union(a, b)
  \/ \E a \in Handles, keys \in Removals : nn_attrset_remove_keys(a, keys)
  \/ nn_attrset_free_all
  \/ Step

Spec == Init /\ [][Next]_vars

-----------------------------------------------------------------------------
Blocks(words, size) == UNION {[0 .. n - 1 -> words] : n \in 0 .. size}

AttrSet ==
  [names : Blocks(Keys \cup Words \cup {Junk}, 2 * MaxEntries), values : Blocks(Words \cup {Junk}, MaxEntries),
   count : 0 .. MaxEntries, capacity : 0 .. MaxEntries, frozen : BOOLEAN]

\* The blocks reach as far as the counts say, the values perhaps further, and
\* what is counted was written.
WellFormed(s) ==
  /\ s \in AttrSet /\ s.count <= s.capacity
  /\ DOMAIN s.names = 0 .. 2 * s.capacity - 1
  /\ 0 .. s.capacity - 1 \subseteq DOMAIN s.values
  /\ \A i \in 0 .. s.count - 1 : At(s, i) \in Entry

Calls ==
  [kind : {"none", "sort", "sift", "dedup", "search", "answer", "union", "remove", "over"},
   set : 0 .. MaxSets, a : 0 .. MaxSets, b : 0 .. MaxSets, i : Nat, j : Nat,
   entry : Entry \cup {Absent}, keys : SUBSET Keys]

TypeOK ==
  /\ sets \in [Handles -> AttrSet] /\ \A h \in Handles : WellFormed(sets[h])
  /\ tracked \in 0 .. MaxSets /\ given \subseteq 1 .. tracked
  /\ \A h \in 1 .. tracked : sets[h].capacity > 0
  /\ op \in Calls
  /\ writes \in 0 .. MaxWrites

\* The entries from m to n - 1 of a set are sorted: strictly, a key once each.
Sorted(s, m, n)  == \A x, y \in m .. n - 1 : x < y => Key(s, x) <= Key(s, y)
Strictly(s, m, n) == \A x, y \in m .. n - 1 : x < y => Key(s, x) < Key(s, y)

\* What every caller of a search, a union or a removal relies on.
FrozenIsSorted == \A h \in Handles : sets[h].frozen => Strictly(sets[h], 0, sets[h].count)

\* The loops: what each has done so far.
SortInv ==
  op.kind = "sort" => /\ op.set \in given /\ ~ S.frozen
                      /\ op.i \in 1 .. S.count /\ S.count > 1 /\ Sorted(S, 0, op.i)

SiftInv ==
  op.kind = "sift" =>
    /\ op.set \in given /\ ~ S.frozen
    /\ op.i \in 1 .. S.count - 1 /\ op.j \in 0 .. op.i /\ op.entry \in Entry
    /\ \A x, y \in (0 .. op.i) \ {op.j} : x < y => Key(S, x) <= Key(S, y)
    /\ \A x \in op.j + 1 .. op.i : Key(S, x) > op.entry.key

DedupInv ==
  op.kind = "dedup" =>
    /\ op.set \in given /\ ~ S.frozen
    /\ op.i \in 0 .. S.count /\ op.j \in 0 .. op.i /\ S.count > 1
    /\ Strictly(S, 0, op.j) /\ Sorted(S, op.i, S.count)
    /\ \A x \in 0 .. op.j - 1, y \in op.i .. S.count - 1 : Key(S, x) < Key(S, y)

SearchInv ==
  op.kind = "search" =>
    /\ Frozen(op.set) /\ \E k \in Keys : op.keys = {k}
    /\ op.i <= op.j /\ op.j <= S.count
    /\ \A x \in 0 .. op.i - 1 : Key(S, x) < Sought
    /\ \A x \in op.j .. S.count - 1 : Sought < Key(S, x)

\* The result so far is sorted, and before everything that is left.
CopyInv ==
  op.kind \in {"union", "remove"} =>
    /\ op.set \in Handles \ given /\ op.set <= tracked /\ ~ S.frozen
    /\ Frozen(op.a) /\ op.i <= sets[op.a].count
    /\ op.kind = "union" => Frozen(op.b) /\ op.j <= sets[op.b].count
    /\ Strictly(S, 0, S.count)
    /\ \A x \in 0 .. S.count - 1 :
         /\ \A y \in op.i .. sets[op.a].count - 1 : Key(S, x) < Key(sets[op.a], y)
         /\ op.kind = "union" =>
              \A y \in op.j .. sets[op.b].count - 1 : Key(S, x) < Key(sets[op.b], y)

\* A set is sorted once it is frozen, through every path of the sort, and
\* nothing that searches or merges ever leaves the part it may read.
SetsInv ==
  /\ TypeOK /\ FrozenIsSorted
  /\ SortInv /\ SiftInv /\ DedupInv /\ SearchInv /\ CopyInv

-----------------------------------------------------------------------------
(* The map a set stands for, also in the middle of its freeze.              *)

\* The entries that are still there: a sort holds one of them in its hand, a
\* deduplication has a gap.
Live(h) == IF op.set = h /\ op.kind = "dedup"
           THEN (0 .. op.j - 1) \cup (op.i .. sets[h].count - 1)
           ELSE 0 .. sets[h].count - 1
Elem(h, i) == IF op.set = h /\ op.kind = "sift" /\ i = op.j THEN op.entry
                                                         ELSE At(sets[h], i)

\* Of each key the last entry counts.
Bindings(h) ==
  {Elem(h, i) : i \in {m \in Live(h) :
     \A n \in Live(h) : n > m => Elem(h, n).key # Elem(h, m).key}}

Promise == INSTANCE AttrMaps WITH
             held <- given,
             maps <- [h \in Handles |-> IF h \in given THEN Bindings(h) ELSE {}],
             answer <- IF op.kind = "answer" THEN <<op.entry>> ELSE << >>

\* The promise of nn_attrset.h: freezing changes no binding however the keys
\* repeat, searches find what is there, merges and removals keep the right
\* entry with its position, and a refused call leaves no trace.
ImplementsPromise == Promise!Spec

=============================================================================
