----------------------------- MODULE SortedMap -----------------------------
(***************************************************************************)
(* move/stdlib/modules/Map.move, the sorted vector behind the owners of    *)
(* NonFungibleToken, and Set.move, which shares its binary search.         *)
(* Compare::cmp_bcs_bytes is a total order of the keys' bytes; the keys    *)
(* here are integers.  Vector indexes start at 0 as in the code.           *)
(*                                                                         *)
(* ref and members are what the vectors stand for: the entries a user of   *)
(* the interface put in and did not take out.                              *)
(***************************************************************************)
EXTENDS Integers, SequencesExt

CONSTANTS
  Keys, Values,
  Absent        \* no entry

ASSUME MapAssumption == Keys \subseteq Int /\ Absent \notin Values

VARIABLES
  nodes,   \* Map.nodes
  ref,     \* the entries nodes should have
  v,       \* Set.T.v
  members  \* the elements v should have

mapVars == <<nodes, ref, v, members>>

----------------------------------------------------------------------------
At(s, i) == s[i + 1]                        \* Vector::borrow
KeysOf(m) == [i \in DOMAIN m |-> m[i].key]

\* The windows left .. right the search may come to, the empty one at the end
\* included.
Windows(ks) == (0 .. Len(ks)) \X (0 .. Len(ks) - 1)

\* A variant: the search stops one step early.
FindEarlyStop(ks, k) ==
  LET search[w \in Windows(ks)] ==
        LET left == w[1]  right == w[2]  mid == (left + right) \div 2 IN
        IF left >= right THEN <<left, FALSE>>
        ELSE IF At(ks, mid) = k THEN <<mid, TRUE>>
        ELSE IF At(ks, mid) < k THEN search[<<mid + 1, right>>]
        ELSE IF mid = 0 THEN <<0, FALSE>>
        ELSE search[<<left, mid - 1>>]
  IN  IF Len(ks) = 0 THEN <<0, FALSE>> ELSE search[<<0, Len(ks) - 1>>]

\* The binary search of Map::find and Set::find: the index of the key, or
\* the place to insert it.
find(ks, k) ==
  LET search[w \in Windows(ks)] ==
        LET left == w[1]  right == w[2]  mid == (left + right) \div 2 IN
        IF left > right THEN <<left, FALSE>>
        ELSE IF At(ks, mid) = k THEN <<mid, TRUE>>
        ELSE IF At(ks, mid) < k THEN search[<<mid + 1, right>>]
        ELSE IF mid = 0 THEN <<0, FALSE>>
        ELSE search[<<left, mid - 1>>]
  IN  IF Len(ks) = 0 THEN <<0, FALSE>> ELSE search[<<0, Len(ks) - 1>>]

Index(ks, k) == find(ks, k)[1]
Found(ks, k) == find(ks, k)[2]

\* push_back, and swaps that take the element down to its place.
PutAt(s, place, e) == InsertAt(s, place + 1, e)

----------------------------------------------------------------------------
MapInit == nodes = <<>> /\ ref = [k \in Keys |-> Absent] /\ v = <<>> /\ members = {}

\* Returns false, and changes nothing, for a key that it finds.
insert(k, x) ==
  /\ ~Found(KeysOf(nodes), k)
  /\ nodes' = PutAt(nodes, Index(KeysOf(nodes), k), [key |-> k, value |-> x])
  /\ ref' = IF ref[k] = Absent THEN [ref EXCEPT ![k] = x] ELSE ref
  /\ UNCHANGED <<v, members>>

\* update, and pay_from's assignment through find and borrow_mut.
update(k, x) ==
  /\ Found(KeysOf(nodes), k)
  /\ nodes' = [nodes EXCEPT ![Index(KeysOf(nodes), k) + 1].value = x]
  /\ ref' = IF ref[k] # Absent THEN [ref EXCEPT ![k] = x] ELSE ref
  /\ UNCHANGED <<v, members>>

\* Set::insert aborts on an element it finds.
set_insert(e) ==
  /\ ~Found(v, e)
  /\ v' = PutAt(v, Index(v, e), e)
  /\ members' = members \cup {e}
  /\ UNCHANGED <<nodes, ref>>

MapNext ==
  \E k \in Keys : \/ \E x \in Values : insert(k, x) \/ update(k, x)
                  \/ set_insert(k)

MapSpec == MapInit /\ [][MapNext]_mapVars

----------------------------------------------------------------------------
\* What the vector holds for key k, by a linear scan.
Lookup(k) == {nodes[i].value : i \in {j \in DOMAIN nodes : nodes[j].key = k}}

\* The vectors hold the entries that were put in, each once, and find and
\* is_mem answer for every key what a linear scan answers: the search never
\* misses an owner, and mint never adds a second entry for an id.
SearchIsFaithful ==
  /\ \A k \in Keys :
       /\ Lookup(k) = {ref[k]} \ {Absent}
       /\ Found(KeysOf(nodes), k) <=> ref[k] # Absent
       /\ Found(KeysOf(nodes), k) =>
            At(nodes, Index(KeysOf(nodes), k)) = [key |-> k, value |-> ref[k]]
       /\ Found(v, k) <=> k \in members
  /\ ToSet(v) = members /\ IsInjective(v)
============================================================================
