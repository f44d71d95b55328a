------------------------------ MODULE AttrMaps ------------------------------
(***************************************************************************)
(* What nn_attrset.h promises of attribute sets: each is a map from keys   *)
(* to a position and a value, the last insertion of a key wins, a union    *)
(* takes the entry of its right side, and nothing that is refused shows.   *)
(***************************************************************************)
EXTENDS Naturals

CONSTANTS Keys, Handles, Absent

VARIABLES
  held,    \* the sets the caller holds
  maps,    \* the entries of each; none where the caller holds no set
  writes,  \* positions and values are told apart by when they were given
  answer   \* the entry that a search found, or Absent, until it is taken

Unbind(map, keys) == {e \in map : e.key \notin keys}
KeysOf(map) == {e.key : e \in map}

Init == /\ held = {}
        /\ maps = [h \in Handles |-> {}]
        /\ writes = 0
        /\ answer = << >>

\* A new set is handed out with what it holds.
Give(h, map) == /\ h \notin held
                /\ held' = held \cup {h}
                /\ maps' = [maps EXCEPT ![h] = map]
                /\ UNCHANGED <<writes, answer>>

New(h) == Give(h, {})

Union(h, a, b) ==
  /\ a \in held /\ b \in held
  /\ Give(h, Unbind(maps[a], KeysOf(maps[b])) \cup maps[b])

RemoveKeys(h, a, keys) == a \in held /\ Give(h, Unbind(maps[a], keys))

Insert(h) ==
  /\ h \in held
  /\ writes' = writes + 1
  /\ \E k \in Keys :
       maps' = [maps EXCEPT ![h] =
                  Unbind(@, {k}) \cup {[key |-> k, pos |-> writes', value |-> writes']}]
  /\ UNCHANGED <<held, answer>>

SetValue(h) ==
  /\ h \in held
  /\ writes' = writes + 1
  /\ \E e \in maps[h] :
       maps' = [maps EXCEPT ![h] = (@ \ {e}) \cup {[e EXCEPT !.value = writes']}]
  /\ UNCHANGED <<held, answer>>

Search(h, k) ==
  /\ h \in held /\ answer = << >> /\ answer' # << >>
  /\ \/ \E e \in maps[h] : e.key = k /\ answer' = <<e>>
     \/ k \notin KeysOf(maps[h]) /\ answer' = <<Absent>>
  /\ UNCHANGED <<held, maps, writes>>

Return == answer' = << >> /\ UNCHANGED <<held, maps, writes>>

FreeAll == /\ held' = {}
           /\ maps' = [h \in Handles |-> {}]
           /\ UNCHANGED <<writes, answer>>

Next ==
  \/ \E h \in Handles : New(h) \/ Insert(h) \/ SetValue(h)
  \/ \E h \in Handles \ held, a, b \in held : Union(h, a, b)
  \/ \E h \in Handles \ held, a \in held, keys \in SUBSET Keys : RemoveKeys(h, a, keys)
  \/ \E h \in held, k \in Keys : Search(h, k)
  \/ Return \/ FreeAll

Spec == Init /\ [][Next]_<<held, maps, writes, answer>>

=============================================================================
