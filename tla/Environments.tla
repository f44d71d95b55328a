---------------------------- MODULE Environments ----------------------------
(***************************************************************************)
(* Evaluation environments (cbits/nn_env.c): structures and pointer arrays *)
(* cut from pages by a bump allocator, and the lookups that walk them.     *)
(*                                                                         *)
(* Memory is counted in words of eight bytes, the alignment and the size   *)
(* of every field, so that NN_ENV_ALIGN needs no rounding; MaxWords is     *)
(* what a uint32_t count of bytes holds.  What the callers put where is    *)
(* kept beside the memory in arrays and envs, and never read by the code.  *)
(***************************************************************************)
EXTENDS CMemory, Sequences, SequencesExt

CONSTANTS PageWords,    \* NN_ENV_PAGE_SIZE
          MaxWords,     \* UINT32_MAX bytes
          SlotCounts,   \* the sizes of slot arrays asked for
          MaxPages,     \* bounds: pages malloc has memory for,
          MaxMade       \* arrays and environments made

\* The words of an environment: six fields.
StructWords == 6

ASSUME PageSizes ==
  /\ PageWords \in Nat /\ MaxWords \in Nat /\ PageWords <= MaxWords /\ StructWords <= MaxWords
  /\ SlotCounts \subseteq Nat /\ MaxPages \in Nat /\ MaxMade \in Nat

\* NULL is neither an address nor a count.
Addresses == [ptr : Nat \X Nat]
ASSUME NullPointsNowhere == None \notin Addresses /\ None \notin [count : Nat]

VARIABLES
  pages,     \* the list from g_first_page to g_current_page
  arrays,    \* the arrays made: address, and the words written to it
  envs       \* the environments made: address, and what they were made of

envVars == <<pages, arrays, envs>>

-----------------------------------------------------------------------------
(* Words: a zeroed word reads as NULL and as 0.                             *)

Address(page, word) == [ptr |-> <<page, word>>]
CountWord(n) == IF n = 0 THEN None ELSE [count |-> n]
CountOf(word) == IF word = None THEN 0 ELSE word.count
Thunk(array, i) == [thunk |-> <<array, i>>]
Scope(n) == [scope |-> n]

\* g_empty_env is static: its words are zero whatever the pages hold.
EmptyEnv == Address(0, 0)

nn_env_live == pages # << >>
Made == Len(arrays) + Len(envs) - 1

\* The k-th word from an address; outside its block there is only junk.
ReadWord(at, k) ==
  LET page == at.ptr[1]
      w == at.ptr[2] + k
  IN  IF page = 0 THEN None
      ELSE IF page <= Len(pages) /\ w \in DOMAIN pages[page].data
           THEN pages[page].data[w] ELSE Junk

\* Words written from an address on; those past the block are lost on others.
Written(pgs, at, words) ==
  LET from == at.ptr[2]
  IN  [pgs EXCEPT ![at.ptr[1]].data =
         [w \in DOMAIN @ |-> IF w - from \in 0 .. Len(words) - 1
                             THEN words[w - from + 1] ELSE @[w]]]

-----------------------------------------------------------------------------
(* nn_env_alloc_raw: the pages and the address it may come back with.       *)

alloc_page(n) == [used |-> 0, data |-> NewBlock(n, Junk)]

\* Mutant: the sum is compared, and wraps.
Overflows_Additive(page, n) == (page.used + n) % (MaxWords + 1) > SizeOf(page.data)

\* bytes > capacity - used, which cannot wrap as used + bytes would.
Overflows(page, n) == n > SizeOf(page.data) - page.used

Bumped(pgs, n) ==
  LET page == Last(pgs)
      at == Address(Len(pgs), page.used)
      cut == [pgs EXCEPT ![Len(pgs)].used = (@ + n) % (MaxWords + 1)]
  IN  [pages |-> Written(cut, at, [i \in 1 .. n |-> None]), at |-> at]

Refused(pgs) == [pages |-> pgs, at |-> None]

nn_env_alloc_raw(pgs, n) ==
  IF pgs = << >> THEN {Refused(pgs)}
  ELSE IF Overflows(Last(pgs), n)
       THEN LET size == IF n > PageWords THEN n ELSE PageWords
            IN  {Refused(pgs)} \cup
                IF Len(pgs) = MaxPages THEN {} ELSE {Bumped(Append(pgs, alloc_page(size)), n)}
       ELSE {Bumped(pgs, n)}

\* nn_env_alloc_slots and nn_env_alloc_with_scopes.
AllocWords(pgs, n) == IF n > MaxWords THEN {Refused(pgs)} ELSE nn_env_alloc_raw(pgs, n)

-----------------------------------------------------------------------------
(* Lifecycle.                                                               *)

TheEmptyEnv == [at |-> EmptyEnv, slots |-> 0, count |-> 0, lazy |-> None,
                parent |-> 0, withs |-> << >>]
NoPages == pages = << >> /\ arrays = << >> /\ envs = <<TheEmptyEnv>>

nn_env_init ==
  /\ pages' = <<alloc_page(PageWords)>>
  /\ arrays' = << >> /\ envs' = <<TheEmptyEnv>>

\* Every pointer is invalid from here on, those kept in arrays and envs too.
nn_env_destroy == pages' = << >> /\ arrays' = << >> /\ envs' = <<TheEmptyEnv>>

-----------------------------------------------------------------------------
(* Reading: level hops up the chain of parents, then one slot.              *)

nn_env_slots(env) == ReadWord(env, 0)
nn_env_slot_count(env) == CountOf(ReadWord(env, 1))
nn_env_lazy_scope(env) == ReadWord(env, 2)
nn_env_parent(env) == ReadWord(env, 3)
nn_env_with_scopes(env) == ReadWord(env, 4)
nn_env_with_count(env) == CountOf(ReadWord(env, 5))

Levels == 0 .. MaxMade
Ancestor(env, level) ==
  LET up[l \in 0 .. level] ==
        IF l = 0 THEN env
        ELSE IF up[l - 1] = None THEN None ELSE nn_env_parent(up[l - 1])
  IN  up[level]

\* NULL where the chain is too short or the frame has no such slot.
nn_env_lookup_resolved(env, level, idx) ==
  LET frame == Ancestor(env, level)
  IN  IF frame = None THEN None
      ELSE IF idx >= nn_env_slot_count(frame) THEN None
      ELSE ReadWord(nn_env_slots(frame), idx)

nn_env_root_scope(env) ==
  LET root == CHOOSE l \in Levels : /\ Ancestor(env, l) # None
                                    /\ nn_env_parent(Ancestor(env, l)) = None
  IN  nn_env_lazy_scope(Ancestor(env, root))

\* What lies at an array of n words.
WordsAt(at, n) == [k \in 1 .. n |-> ReadWord(at, k - 1)]

-----------------------------------------------------------------------------
(* Slot arrays: allocated zeroed, and filled by the caller at once          *)
(* (buildCSlots) or after the environment over them is made (allocCSlots,   *)
(* fillCSlots: the knots of let and rec).                                   *)

nn_env_alloc_slots(n) ==
  /\ n > 0 /\ Made < MaxMade
  /\ \E got \in AllocWords(pages, n) :
       /\ got.at # None
       /\ pages' = got.pages
       /\ arrays' = Append(arrays, [at |-> got.at, words |-> [i \in 1 .. n |-> None]])
  /\ UNCHANGED envs

fillCSlots(a) ==
  LET thunks == [i \in 1 .. Len(arrays[a].words) |-> Thunk(a, i)]
  IN  /\ arrays[a].words # thunks
      /\ pages' = Written(pages, arrays[a].at, thunks)
      /\ arrays' = [arrays EXCEPT ![a].words = thunks]
      /\ UNCHANGED envs

-----------------------------------------------------------------------------
(* Environments: six words.  The caller names arrays and environments by    *)
(* their number, 0 for none.                                                *)

AddressOf(made, i) == IF i = 0 THEN None ELSE made[i].at

Struct(slotsAt, count, lazy, parentAt, withsAt, withs) ==
  <<slotsAt, CountWord(count), lazy, parentAt, withsAt, CountWord(withs)>>

\* The structure is allocated after what it points to, and may be refused.
NewEnv(pgs, words, view) ==
  \E got \in nn_env_alloc_raw(pgs, StructWords) :
    IF got.at = None THEN pages' = pgs /\ UNCHANGED envs
    ELSE /\ pages' = Written(got.pages, got.at, words)
         /\ envs' = Append(envs, [view EXCEPT !.at = got.at])

View(a, lazy, env, withs) ==
  [at |-> None, slots |-> a, count |-> IF a = 0 THEN 0 ELSE Len(arrays[a].words),
   lazy |-> lazy, parent |-> env, withs |-> withs]

\* What the callers expect to find, from what they made.
ViewAncestor(env, level) ==
  LET up[l \in 0 .. level] ==
        IF l = 0 THEN env ELSE IF up[l - 1] = 0 THEN 0 ELSE envs[up[l - 1]].parent
  IN  up[level]

ViewLookup(env, level, idx) ==
  LET frame == ViewAncestor(env, level)
  IN  IF frame = 0 THEN None
      ELSE IF idx >= envs[frame].count THEN None
      ELSE arrays[envs[frame].slots].words[idx + 1]

\* The scope of the outermost environment, if it has one.
ViewRootScope(env) ==
  LET root == CHOOSE r \in {ViewAncestor(env, l) : l \in Levels} :
                r # 0 /\ envs[r].parent = 0
  IN  envs[root].lazy

\* newCEnv over a scope of its own: the builtins (0 for the parent), and the
\* frames of let and rec, which keep the with-scopes around them.
nn_env_new(a, env) ==
  LET p == AddressOf(envs, env)
      withs == IF env = 0 THEN None ELSE nn_env_with_scopes(p)
      n == IF env = 0 THEN 0 ELSE nn_env_with_count(p)
      view == View(a, Scope(Len(envs)), env, IF env = 0 THEN << >> ELSE envs[env].withs)
  IN  /\ NewEnv(pages, Struct(AddressOf(arrays, a), view.count, view.lazy, p, withs, n), view)
      /\ UNCHANGED arrays

nn_env_from_slots(a, env) ==
  LET p == envs[env].at
      view == View(a, None, env, envs[env].withs)
  IN  /\ NewEnv(pages, Struct(AddressOf(arrays, a), view.count, None, p,
                              nn_env_with_scopes(p), nn_env_with_count(p)), view)
      /\ UNCHANGED arrays

nn_env_new_minimal(a) ==
  LET view == View(a, None, 0, << >>)
  IN  /\ NewEnv(pages, Struct(AddressOf(arrays, a), view.count, None, None, None, 0), view)
      /\ UNCHANGED arrays

\* A copy of the environment with one scope more, the innermost.
nn_env_push_with(env) ==
  LET base == envs[env].at
      n == nn_env_with_count(base) + 1
      scope == Scope(Len(envs))
      copied == <<scope>> \o WordsAt(nn_env_with_scopes(base), n - 1)
      view == [envs[env] EXCEPT !.withs = <<scope>> \o @]
  IN  /\ \E got \in AllocWords(pages, n) :
           /\ got.at # None
           /\ NewEnv(Written(got.pages, got.at, copied),
                     Struct(nn_env_slots(base), nn_env_slot_count(base), nn_env_lazy_scope(base),
                            nn_env_parent(base), got.at, n), view)
      /\ UNCHANGED arrays

\* Closure trimming: the slots a lambda uses are copied out of its frames
\* (buildCSlots over envLookupResolved; one slot here).
CaptureSlot(env, level, idx) ==
  LET word == nn_env_lookup_resolved(envs[env].at, level, idx)
  IN  /\ Made < MaxMade
      /\ ViewLookup(env, level, idx) # None
      /\ \E got \in AllocWords(pages, 1) :
           /\ got.at # None
           /\ pages' = Written(got.pages, got.at, <<word>>)
           /\ arrays' = Append(arrays, [at |-> got.at,
                                        words |-> <<ViewLookup(env, level, idx)>>])
      /\ UNCHANGED envs

\* newCEnv over captured slots: no parent, and the with-scopes with the root
\* scope after them, outermost (withScopesForCapture).
TrimEnv(a, env) ==
  LET base == envs[env].at
      n == nn_env_with_count(base)
      root == nn_env_root_scope(base)
      outermost == IF ViewRootScope(env) = None THEN << >> ELSE <<ViewRootScope(env)>>
      view == View(a, None, 0, envs[env].withs \o outermost)
      Trimmed(pgs, withsAt, count) ==
        NewEnv(pgs, Struct(AddressOf(arrays, a), view.count, None, None, withsAt, count), view)
  IN  /\ IF root = None THEN Trimmed(pages, nn_env_with_scopes(base), n)
         ELSE \E got \in AllocWords(pages, n + 1) :
                /\ got.at # None
                /\ Trimmed(Written(got.pages, got.at,
                                   Append(WordsAt(nn_env_with_scopes(base), n), root)),
                           got.at, n + 1)
      /\ UNCHANGED arrays

\* Every frame is made over slots of its own, or over none.
Unframed ==
  {0} \cup {a \in 1 .. Len(arrays) : \A env \in 1 .. Len(envs) : envs[env].slots # a}

EnvNext ==
  \/ \E n \in SlotCounts : nn_env_alloc_slots(n)
  \/ \E a \in 1 .. Len(arrays) : fillCSlots(a)
  \/ \E env \in 1 .. Len(envs) :
       \E level \in Levels : \E idx \in 0 .. 1 : CaptureSlot(env, level, idx)
  \/ /\ Made < MaxMade
     /\ \E a \in Unframed :
          \/ nn_env_new_minimal(a)
          \/ \E env \in 0 .. Len(envs) : nn_env_new(a, env)
          \/ \E env \in 1 .. Len(envs) : nn_env_from_slots(a, env) \/ TrimEnv(a, env)
  \/ Made < MaxMade /\ \E env \in 1 .. Len(envs) : nn_env_push_with(env)

-----------------------------------------------------------------------------
(* Properties.                                                              *)

\* Every environment made still answers what it was made of, whatever was
\* allocated, filled or refused since: each lookup by level and index, the
\* root scope, its own scope and the with-scopes, innermost first; and every
\* array still holds what was put there.  (Allocations lie inside their page
\* and apart from each other.)
MemoryReadsBack ==
  /\ \A a \in 1 .. Len(arrays) :
       WordsAt(arrays[a].at, Len(arrays[a].words)) = arrays[a].words
  /\ \A env \in 1 .. Len(envs) :
       LET at == envs[env].at
       IN  /\ nn_env_lazy_scope(at) = envs[env].lazy
           /\ ReadWord(at, 5) = CountWord(Len(envs[env].withs))
           /\ WordsAt(nn_env_with_scopes(at), Len(envs[env].withs)) = envs[env].withs
           /\ \A level \in Levels, idx \in 0 .. 1 :
                nn_env_lookup_resolved(at, level, idx) = ViewLookup(env, level, idx)
           /\ nn_env_root_scope(at) = ViewRootScope(env)

=============================================================================
