---------------------------- MODULE MCAlgorithms ----------------------------
(***************************************************************************)
(* The algorithms that keep no state of the system: the sorted vector of   *)
(* Map.move and Set.move, the serialisation of values, and the search for  *)
(* a chain of pools.  They share nothing; a behaviour is one of the three. *)
(***************************************************************************)
EXTENDS SortedMap, BcsWire, SwapPath

----------------------------------------------------------------------------
\* Values of every type.  One part at a time leaves its base value.

Numeral(n, x) == [i \in 1 .. n |-> IF i = n THEN x ELSE 0]

RECURSIVE Base(_)
Base(t) ==
  CASE t.k = "u8"   -> 0
    [] t.k = "uint" -> Numeral(t.n, 0)
    [] t.k = "bool" -> FALSE
    [] t.k \in {"str", "vec", "opt", "map"} -> <<>>
    [] t.k = "array" -> Copies(Base(t.of), t.n)
    [] t.k \in {"tuple", "struct"} -> [i \in DOMAIN t.parts |-> Base(t.parts[i])]
    [] t.k = "enum" -> [index |-> 0,
                        args |-> [i \in DOMAIN t.cases[1] |-> Base(t.cases[1][i])]]
    [] t.k = "ptr"  -> Base(Definition(t.name))

RECURSIVE Samples(_, _)
Varied(ts, fuel) ==
  LET base == [i \in DOMAIN ts |-> Base(ts[i])] IN
  {base} \cup UNION {{[base EXCEPT ![i] = x] : x \in Samples(ts[i], fuel)} : i \in DOMAIN ts}

\* `fuel` is how often a value_ptr is followed to other values than the base.
Samples(t, fuel) ==
  CASE t.k = "u8"   -> {0, 200}
    [] t.k = "uint" -> {Numeral(t.n, 0), [i \in 1 .. t.n |-> i]}
    [] t.k = "bool" -> BOOLEAN
    [] t.k = "str"  -> {<<>>, <<194, 169>>}
    [] t.k \in {"vec", "opt"} -> {<<>>} \cup {<<x>> : x \in Samples(t.of, fuel)}
    [] t.k = "array" -> {[i \in 1 .. t.n |-> IF i = 1 THEN x ELSE Base(t.of)]
                           : x \in Samples(t.of, fuel)}
    [] t.k \in {"tuple", "struct"} -> Varied(t.parts, fuel)
    [] t.k = "enum" -> UNION {{[index |-> i - 1, args |-> a] : a \in Varied(t.cases[i], fuel)}
                                : i \in DOMAIN t.cases}
    [] t.k = "ptr"  -> IF fuel = 0 THEN {Base(t)} ELSE Samples(Definition(t.name), fuel - 1)

\* The map of an account's resources: keys of other lengths, and one that
\* is a prefix of another.
Resources == MapOf(Str, Bytes)
Maps ==
  { <<>>,
    << <<<<65>>, <<1>>>> >>,
    << <<<<65, 65>>, <<>>>>, <<<<66>>, <<2>>>> >>,
    << <<<<65>>, <<>>>>, <<<<65, 0>>, <<2>>>>, <<<<66>>, <<>>>> >> }

\* vector<vector<...<bool>...>>
RECURSIVE Nested(_)
Nested(n) == [index |-> IF n = 0 THEN 0 ELSE 6,
              args  |-> IF n = 0 THEN <<>> ELSE <<Nested(n - 1)>>]

Of(t, values) == {<<t, x>> : x \in values}

MCMessages ==
  UNION {Of(t, Samples(t, 1)) : t \in {Transaction, Metadata}}
    \cup UNION {Of(t, Samples(t, 0)) :
                  t \in {GeneralMetadataV0, CoinTradeMetadataV0, BlockMetadata, EventKey,
                         TransactionArgument, Vec(U64), Tuple(<<U8, Opt(Bool)>>)}}
    \cup Of(Resources, Maps)
    \cup Of(TypeTag, {Nested(n) : n \in MaxDepth - 2 .. MaxDepth + 1})

\* The lengths at which a digit is added.
MCLengths ==
  {0} \cup UNION {{2^(7 * k) - 1, 2^(7 * k), 2^(7 * k) + 1} : k \in 1 .. 4}
      \cup {BCS_MAX_LENGTH - 1, BCS_MAX_LENGTH}

----------------------------------------------------------------------------
\* Every set of pools between four coins, in two shapes, and an empty pool.

Pairs == << <<0, 1>>, <<0, 2>>, <<0, 3>>, <<1, 2>>, <<1, 3>>, <<2, 3>> >>
Pool(pair, held) == [a |-> pair[1], b |-> pair[2], va |-> held[1], vb |-> held[2]]

MCReserves ==
  {LET joined == SelectSeq([i \in 1 .. 6 |-> i], LAMBDA i : held[i] # <<>>)
   IN  [i \in DOMAIN joined |-> Pool(Pairs[joined[i]], held[joined[i]])]
     : held \in [1 .. 6 -> {<<>>, <<8, 16>>, <<8, 4>>}]}
  \cup {<<Pool(<<0, 1>>, <<0, 8>>)>>}

----------------------------------------------------------------------------
AllInit == MapInit /\ WireInit /\ SwapInit

MapIdle == nodes = <<>> /\ v = <<>>

AllNext ==
  \/ wire = NoMessage /\ swap = NoSwap /\ MapNext /\ UNCHANGED <<wire, swap>>
  \/ MapIdle /\ swap = NoSwap /\ WireNext /\ UNCHANGED <<mapVars, swap>>
  \/ MapIdle /\ wire = NoMessage /\ SwapNext /\ UNCHANGED <<mapVars, wire>>

AllSpec == AllInit /\ [][AllNext]_<<mapVars, wire, swap>>
=============================================================================
