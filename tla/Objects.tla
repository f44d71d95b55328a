------------------------------ MODULE Objects ------------------------------
(***************************************************************************)
(* Lists, lambdas and strings with a context (cbits/nn_list.c,             *)
(* nn_lambda.c, nn_ctxstr.c): blocks from malloc, every one put into its   *)
(* class's tracking array when it is made and freed from there at the end  *)
(* of evaluation.  A list's items lie in the pages of Environments, and    *)
(* the lists dropped from it share them.                                   *)
(***************************************************************************)
EXTENDS Environments

CONSTANTS TrackCapacity,  \* what a tracking array starts with: 256
          ListLengths,    \* bounds: the lengths and counts asked for,
          EntryCounts,
          MaxObjects      \* and the objects tracked

ASSUME ObjectSizes ==
  /\ TrackCapacity \in Nat \ {0} /\ MaxObjects \in Nat
  /\ ListLengths \subseteq Nat \ {0} /\ EntryCounts \subseteq Nat

\* NULL is neither a block's address nor an object being made.
Makings == [block : Nat, need : {"items", "entries", "track"}, array : Nat, from : Nat]
ASSUME NullIsNoBlock == None \notin Nat /\ None \notin Makings

VARIABLES
  heap,      \* the blocks malloc gave out and free has not taken back
  tracked,   \* g_tracked and g_tracked_cap of each class
  making,    \* the object a constructor is at, or None
  lists      \* the lists made: header, array, and items dropped from it

objectVars == <<heap, tracked, making, lists>>

-----------------------------------------------------------------------------
Classes == {"list", "lambda", "ctxstr"}
NothingTracked == [class \in Classes |-> [blocks |-> << >>, cap |-> 0]]
NoObjects == heap = << >> /\ tracked = NothingTracked /\ making = None /\ lists = << >>

\* malloc may hand an address out again once it was freed.
Fresh == CHOOSE b \in 1 .. Cardinality(DOMAIN heap) + 1 : b \notin DOMAIN heap
malloc(content) ==
  heap' = [b \in DOMAIN heap \cup {Fresh} |-> IF b = Fresh THEN content ELSE heap[b]]
free(blocks) == heap' = [b \in DOMAIN heap \ blocks |-> heap[b]]

\* What belongs to an object besides its first block.
EntriesOf(b) == IF heap[b].class = "lambda" THEN {heap[b].entries} \ {None} ELSE {}
BlocksOf(b) == {b} \cup EntriesOf(b)

-----------------------------------------------------------------------------
(* A constructor allocates the first block, then what else the object has,  *)
(* then tracks it; wherever memory is refused it frees what it has.         *)

Objects == Len(tracked["list"].blocks) + Len(tracked["lambda"].blocks)
           + Len(tracked["ctxstr"].blocks)

Start(content, need, array, from) ==
  /\ making = None
  /\ Objects < MaxObjects
  /\ malloc(content)
  /\ making' = [block |-> Fresh, need |-> need, array |-> array, from |-> from]
  /\ UNCHANGED <<tracked, lists, envVars>>

nn_list_new(n) == Start([class |-> "list", items |-> None, count |-> n], "items", 0, 0)

\* A list without its first n items: a header of its own over the same items.
nn_list_drop(l, n) ==
  LET list == heap[lists[l].list]
      items == Address(list.items.ptr[1], list.items.ptr[2] + n)
  IN  /\ n < list.count
      /\ Start([class |-> "list", items |-> items, count |-> list.count - n], "track",
               lists[l].array, lists[l].from + n)

nn_lambda_new(env, n) ==
  Start([class |-> "lambda", env |-> envs[env].at, entries |-> None, count |-> n],
        IF n = 0 THEN "track" ELSE "entries", 0, 0)

nn_ctxstr_new(n) ==
  Start([class |-> "ctxstr", ctx |-> [i \in 1 .. n |-> None]], "track", 0, 0)

Making(need) == making # None /\ making.need = need

\* The array of formals, zeroed.
LambdaEntries ==
  /\ Making("entries")
  /\ LET b == making.block
         entries == [class |-> "entries", words |-> [i \in 1 .. heap[b].count |-> None]]
     IN  heap' = [x \in DOMAIN heap \cup {Fresh} |->
                    IF x = Fresh THEN entries
                    ELSE IF x = b THEN [heap[b] EXCEPT !.entries = Fresh] ELSE heap[x]]
  /\ making' = [making EXCEPT !.need = "track"]
  /\ UNCHANGED <<tracked, lists, envVars>>

\* The items come from the pages, through nn_env_alloc_slots.
ListItems ==
  /\ Making("items") /\ Made < MaxMade
  /\ LET b == making.block
     IN  \E got \in AllocWords(pages, heap[b].count) :
           /\ got.at # None
           /\ pages' = got.pages
           /\ arrays' = Append(arrays, [at |-> got.at,
                                        words |-> [i \in 1 .. heap[b].count |-> None]])
           /\ heap' = [heap EXCEPT ![b].items = got.at]
  /\ making' = [making EXCEPT !.need = "track", !.array = Len(arrays) + 1]
  /\ UNCHANGED <<envs, tracked, lists>>

ClassAt(b) == heap[b].class
TrackFull(class) == Len(tracked[class].blocks) >= tracked[class].cap

\* nn_list_track and its like.
Track ==
  /\ Making("track")
  /\ LET b == making.block
         class == ClassAt(b)
         cap == tracked[class].cap
         grown == IF cap = 0 THEN TrackCapacity ELSE 2 * cap
     IN  /\ TrackFull(class) => cap <= MaxUInt \div 2
         /\ tracked' = [tracked EXCEPT ![class] =
              [blocks |-> Append(@.blocks, b),
               cap |-> IF TrackFull(class) THEN grown ELSE cap]]
         /\ lists' = IF class # "list" THEN lists
                     ELSE Append(lists, [list |-> b, array |-> making.array,
                                         from |-> making.from])
  /\ making' = None
  /\ UNCHANGED <<heap, envVars>>

\* Mutant: only the first block is freed.
Refuse_KeepsEntries ==
  /\ making # None
  /\ Making("track") => TrackFull(ClassAt(making.block))
  /\ free({making.block})
  /\ making' = None
  /\ UNCHANGED <<tracked, lists, envVars>>

\* Where the items were allocated they stay in their page.
Refuse ==
  /\ making # None
  /\ Making("track") => TrackFull(ClassAt(making.block))
  /\ free(BlocksOf(making.block))
  /\ making' = None
  /\ UNCHANGED <<tracked, lists, envVars>>

-----------------------------------------------------------------------------
(* Filling: thunkListToCList before anyone has the list; the setters of     *)
(* entries and elements drop a write past the end.                          *)

nn_list_set(l) == UNCHANGED objectVars /\ fillCSlots(lists[l].array)
Filled(l) == \A w \in Range(arrays[lists[l].array].words) : w # None

nn_lambda_set_entry(b, i) ==
  LET entries == heap[b].entries
  IN  /\ entries # None /\ i <= heap[b].count
      /\ heap' = [heap EXCEPT ![entries].words[i] = [entry |-> i]]
      /\ UNCHANGED <<tracked, making, lists, envVars>>

nn_ctxstr_set(b, i) ==
  /\ i <= Len(heap[b].ctx)
  /\ heap' = [heap EXCEPT ![b].ctx[i] = [element |-> i]]
  /\ UNCHANGED <<tracked, making, lists, envVars>>

\* nn_list_free_all, nn_lambda_free_all and nn_ctxstr_free_all: what is
\* tracked is freed, in its class, with its entries.
free_all ==
  /\ free(UNION {BlocksOf(b) : b \in UNION {Range(tracked[c].blocks) : c \in Classes}})
  /\ tracked' = NothingTracked /\ lists' = << >>

TrackedBlocks(class) == Range(tracked[class].blocks)

ObjectsNext ==
  \/ \E n \in ListLengths : nn_list_new(n)
  \/ \E l \in 1 .. Len(lists) : \E n \in ListLengths : Filled(l) /\ nn_list_drop(l, n)
  \/ \E n \in EntryCounts : nn_ctxstr_new(n) \/ nn_lambda_new(Len(envs), n)
  \/ LambdaEntries \/ ListItems \/ Track \/ Refuse
  \/ making = None /\ \E l \in 1 .. Len(lists) : nn_list_set(l)
  \/ /\ making = None
     /\ \E i \in EntryCounts \ {0} :
          \/ \E b \in TrackedBlocks("lambda") : nn_lambda_set_entry(b, i)
          \/ \E b \in TrackedBlocks("ctxstr") : nn_ctxstr_set(b, i)

-----------------------------------------------------------------------------
(* Properties.                                                              *)

nn_list_get(b, i) == ReadWord(Address(heap[b].items.ptr[1], heap[b].items.ptr[2] + i), 0)

\* Every block is owned exactly once: tracked in one class, part of what is
\* tracked, or in the hands of the constructor that is at work.  A refusal
\* half way through a constructor leaves nothing behind, and free_all frees
\* no block twice and no block with a list dropped from it.
HeapAccounted ==
  LET owners == (UNION {{<<c, i>> : i \in 1 .. Len(tracked[c].blocks)} : c \in Classes})
                \cup (IF making = None THEN {} ELSE {<<"making", 1>>})
      Owned(o) == BlocksOf(IF o[1] = "making" THEN making.block
                           ELSE tracked[o[1]].blocks[o[2]])
  IN  /\ DOMAIN heap = UNION {Owned(o) : o \in owners}
      /\ \A o, p \in owners : o # p => Owned(o) \cap Owned(p) = {}
      /\ \A c \in Classes : /\ Len(tracked[c].blocks) <= tracked[c].cap
                            /\ \A b \in TrackedBlocks(c) : heap[b].class = c

\* What evaluation reads is what was put there: environments, arrays and every
\* list, which is what it was built of without what was dropped from it,
\* whatever shares its items and whatever was allocated or refused since.
ReadsBack ==
  /\ MemoryReadsBack
  /\ \A l \in 1 .. Len(lists) :
       LET b == lists[l].list
           words == arrays[lists[l].array].words
       IN  /\ heap[b].count = Len(words) - lists[l].from
           /\ \A i \in 0 .. heap[b].count - 1 :
                nn_list_get(b, i) = words[lists[l].from + i + 1]

=============================================================================
