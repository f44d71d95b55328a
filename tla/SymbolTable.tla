---------------------------- MODULE SymbolTable ----------------------------
(***************************************************************************)
(* The table of interned strings (cbits/nn_symbol.c): an open-addressed    *)
(* table of slots with linear probing, the entries by symbol, and one      *)
(* block of bytes that holds every text.  The table is rebuilt at twice    *)
(* its size when an insertion would reach the load limit; the rebuild      *)
(* takes one step a slot, since it decides where every symbol is found.    *)
(*                                                                         *)
(* A realloc or calloc may be refused wherever it is asked for, after      *)
(* others of the same insertion were granted.                              *)
(***************************************************************************)
EXTENDS CMemory, Sequences

CONSTANTS Strings,          \* the texts: sequences of bytes
          fnv1a,            \* their hashes: any function of the bytes
          SymbolCapacity,   \* entries the table starts with, a power of two
          LoadPercent,      \* NN_SYMBOL_LOAD_PERCENT
          ArenaInitial      \* NN_SYMBOL_ARENA_INITIAL

ASSUME SymbolSizes ==
  /\ Strings \subseteq Seq(Nat)
  /\ fnv1a \in [Strings -> UInt]
  /\ SymbolCapacity \in Nat \ {0} /\ ArenaInitial \in Nat \ {0}
  /\ LoadPercent \in 1 .. 99

VARIABLES
  entries,     \* offset, length and hash of each symbol; symbols count from 1
  entriesCap,
  slots,       \* the symbol in each slot, 0 where it is empty
  text,        \* the string arena, as many bytes as it has room for
  textUsed,
  rebuild      \* the insertion whose rebuild is in progress, or None

symbolVars == <<entries, entriesCap, slots, text, textUsed, rebuild>>

-----------------------------------------------------------------------------
ArenaLimit == MaxUInt + 1           \* offsets and lengths that fit an entry
NUL == 0
Symbols == 1 .. Len(entries)

\* The table is live as long as it has slots.
nn_symbol_live == SizeOf(slots) > 0

\* Slot d of the probe for a hash: the size is a power of two, and the mask
\* takes the remainder.
Probed(table, hash, d) == (hash + d) % SizeOf(table)

nn_symbol_text(id) ==
  [i \in 1 .. entries[id].len |-> text[entries[id].offset + i - 1]]

\* The bytes are compared only where the hashes agree.
Holds(id, str) == entries[id].hash = fnv1a[str] /\ nn_symbol_text(id) = str

\* The probe for a string stops after d slots, at an empty one or at its own.
StopsAt(str, d) ==
  LET Stop(c) == LET id == slots[Probed(slots, fnv1a[str], c)]
                 IN  id # 0 => Holds(id, str)
  IN  Stop(d) /\ \A c \in 0 .. d - 1 : ~ Stop(c)
Found(str, id) ==
  \E d \in 0 .. SizeOf(slots) - 1 :
    StopsAt(str, d) /\ slots[Probed(slots, fnv1a[str], d)] = id

\* A symbol goes into the first empty slot of its hash's probe.
FirstEmpty(table, hash, w) ==
  \E d \in 0 .. SizeOf(table) - 1 :
    /\ w = Probed(table, hash, d)
    /\ table[w] = 0
    /\ \A c \in 0 .. d - 1 : table[Probed(table, hash, c)] # 0

-----------------------------------------------------------------------------
(* Lifecycle.                                                               *)

NoSymbols == /\ entries = << >> /\ textUsed = 0 /\ rebuild = None
             /\ entriesCap = 0 /\ slots = << >> /\ text = << >>

nn_symbol_init ==
  /\ entries' = << >> /\ textUsed' = 0 /\ rebuild' = None
  /\ entriesCap' = SymbolCapacity
  /\ slots' = NewBlock(2 * SymbolCapacity, 0)
  /\ text' = NewBlock(ArenaInitial, Junk)

nn_symbol_destroy ==
  /\ entries' = << >> /\ textUsed' = 0 /\ rebuild' = None
  /\ entriesCap' = 0 /\ slots' = << >> /\ text' = << >>

-----------------------------------------------------------------------------
(* Interning.  A string found, one too long and one refused by realloc      *)
(* before anything grew change nothing.                                     *)

ArenaFull(str) == textUsed + Len(str) + 1 > SizeOf(text)
Reserved(str) ==
  IF ArenaFull(str) THEN Resized(text, DoubledTo(SizeOf(text), textUsed + Len(str) + 1))
                    ELSE text
arena_reserve(str) == text' = Reserved(str)

\* Entry 0 is never used, so that count + 1 has to stay below the capacity.
EntriesFull == Len(entries) + 1 >= entriesCap
EntriesAtLimit == EntriesFull /\ entriesCap > MaxUInt \div 2
entries_reserve ==
  /\ ~ EntriesAtLimit
  /\ entriesCap' = IF EntriesFull THEN 2 * entriesCap ELSE entriesCap

\* Mutant: a load limit of one whole table.
LoadReached_Full == Len(entries) + 1 > SizeOf(slots)
LoadReached == (Len(entries) + 1) * 100 >= SizeOf(slots) * LoadPercent
SlotsAtLimit == SizeOf(slots) > MaxUInt \div 2

\* Mutant: lengths are not checked against the arena's limit.
Interning_AnyLength(str) == nn_symbol_live /\ rebuild = None /\ Found(str, 0)

\* The string is not in the table, and its bytes fit the arena's offsets.
Interning(str) ==
  /\ nn_symbol_live /\ rebuild = None
  /\ Found(str, 0)
  /\ Len(str) < ArenaLimit - textUsed

\* The insertion itself, with the arena and the slots now in force.
Insert(str, bytes, table) ==
  LET id == Len(entries) + 1
      offset == Wrapped(textUsed)
      written == [w \in offset .. offset + Len(str) |->
                    IF w = offset + Len(str) THEN NUL ELSE str[w - offset + 1]]
  IN  /\ entries' = Append(entries, [offset |-> offset,
                                     len |-> Len(str), hash |-> fnv1a[str]])
      /\ text' = [w \in DOMAIN bytes |->
                    IF w \in DOMAIN written THEN written[w] ELSE bytes[w]]
      /\ textUsed' = textUsed + Len(str) + 1
      /\ \E w \in DOMAIN table : /\ FirstEmpty(table, fnv1a[str], w)
                                /\ slots' = [table EXCEPT ![w] = id]

\* The arena has grown for nothing: the entries cannot.
RefuseEntries(str) ==
  /\ Interning(str) /\ EntriesFull
  /\ arena_reserve(str)
  /\ UNCHANGED <<entries, entriesCap, slots, textUsed, rebuild>>

\* Arena and entries have room, but the table is at its load and cannot grow.
RefuseSlots(str) ==
  /\ Interning(str) /\ LoadReached
  /\ arena_reserve(str) /\ entries_reserve
  /\ UNCHANGED <<entries, slots, textUsed, rebuild>>

Intern(str) ==
  /\ Interning(str) /\ ~ LoadReached
  /\ entries_reserve
  /\ Insert(str, Reserved(str), slots)
  /\ UNCHANGED rebuild

\* slots_grow: a table of twice the size, filled slot by slot.
StartRebuild(str) ==
  /\ Interning(str) /\ LoadReached /\ ~ SlotsAtLimit
  /\ arena_reserve(str) /\ entries_reserve
  /\ rebuild' = [str |-> str, next |-> 0, table |-> NewBlock(2 * SizeOf(slots), 0)]
  /\ UNCHANGED <<entries, slots, textUsed>>

RebuildSlot ==
  /\ rebuild # None
  /\ rebuild.next < SizeOf(slots)
  /\ LET id == slots[rebuild.next]
     IN  \/ id = 0 /\ rebuild' = [rebuild EXCEPT !.next = @ + 1]
         \/ /\ id # 0
            /\ \E w \in DOMAIN rebuild.table :
                 /\ FirstEmpty(rebuild.table, entries[id].hash, w)
                 /\ rebuild' = [rebuild EXCEPT !.next = @ + 1, !.table[w] = id]
  /\ UNCHANGED <<entries, entriesCap, slots, text, textUsed>>

InternRebuilt ==
  /\ rebuild # None
  /\ rebuild.next = SizeOf(slots)
  /\ Insert(rebuild.str, text, rebuild.table)
  /\ rebuild' = None
  /\ UNCHANGED entriesCap

SymbolNext ==
  \/ \E str \in Strings : \/ RefuseEntries(str) \/ RefuseSlots(str)
                          \/ Intern(str) \/ StartRebuild(str)
  \/ RebuildSlot
  \/ InternRebuilt

-----------------------------------------------------------------------------
(* Properties.                                                              *)

\* Every symbol is found again by its text: the probe for any string ends,
\* and for the text of a symbol it ends at that symbol, whatever collided,
\* whatever the table was rebuilt to and whichever growth was refused.
\* (nn_symbol_intern answers one symbol per string.)
FoundAgain ==
  nn_symbol_live =>
    /\ \A str \in Strings : \E id \in 0 .. Len(entries) : Found(str, id)
    /\ \A id \in Symbols : nn_symbol_text(id) \in Strings /\ Found(nn_symbol_text(id), id)

\* A symbol keeps its text as long as the table lives, through every growth
\* and every refusal.  (nn_symbol.h: a refusal leaves the table as it was.)
TextsKept ==
  [][nn_symbol_live /\ nn_symbol_live' =>
       /\ Len(entries) <= Len(entries')
       /\ \A id \in Symbols : nn_symbol_text(id)' = nn_symbol_text(id)]_symbolVars

=============================================================================
