-------------------------------- MODULE Bcs ---------------------------------
(***************************************************************************)
(* Binary canonical serialisation: the generated serialiser of             *)
(* cpp/framework/src/{serde,binary,bcs}.hpp, with which transactions are   *)
(* signed and sent, and the SDK's own reader and writer of the same format *)
(* in cpp/sdk/include/bcs_serde.hpp, with which account state is read.     *)
(*                                                                         *)
(* A C++ type is a term, and one recursive operator per direction stands   *)
(* for the templates that are instantiated along it.  A byte is 0 .. 255.  *)
(* An integer of n > 1 bytes is its numeral in base 256, the most          *)
(* significant digit first, so that 64 bits fit; lengths and indexes are   *)
(* numbers up to 2^31 - 1.                                                 *)
(***************************************************************************)
EXTENDS Integers, Sequences, SequencesExt

CONSTANTS
  MaxDepth,        \* BCS_MAX_CONTAINER_DEPTH
  Definition(_)    \* the type that a value_ptr of this name points to

RECURSIVE serialize_u32_as_uleb128(_)
RECURSIVE Serialize(_, _)
RECURSIVE Depth(_, _)
RECURSIVE UlebFrom(_, _, _, _)
RECURSIVE ValidFrom(_, _)
RECURSIVE Deserialize(_, _, _, _)
RECURSIVE DeserializeAll(_, _, _, _)

BCS_MAX_LENGTH == 2147483647

\* Types.
U8          == [k |-> "u8"]
UInt(n)     == [k |-> "uint", n |-> n]
Bool        == [k |-> "bool"]
Str         == [k |-> "str"]
Vec(t)      == [k |-> "vec", of |-> t]
Array(t, n) == [k |-> "array", of |-> t, n |-> n]
Opt(t)      == [k |-> "opt", of |-> t]
MapOf(t, u) == [k |-> "map", key |-> t, of |-> u]
Tuple(ts)   == [k |-> "tuple", parts |-> ts]
Struct(ts)  == [k |-> "struct", parts |-> ts]
Enum(cs)    == [k |-> "enum", cases |-> cs]   \* a struct around a std::variant
Ptr(name)   == [k |-> "ptr", name |-> name]

Copies(t, n) == [i \in 1 .. n |-> t]
Entry(t)     == <<t.key, t.of>>

\* std::lexicographical_compare, and operator< of strings and vectors
LexLess(a, b) ==
  \/ IsStrictPrefix(a, b)
  \/ \E i \in DOMAIN a \cap DOMAIN b :
       a[i] < b[i] /\ \A j \in 1 .. i - 1 : a[j] = b[j]

KeyLess(e, f) == LexLess(e[1], f[1])

----------------------------------------------------------------------------
\* Writing.

serialize_uint(v) == Reverse(v)

serialize_u32_as_uleb128(n) ==
  IF n >= 128 THEN <<128 + (n % 128)>> \o serialize_u32_as_uleb128(n \div 128)
              ELSE <<n>>

\* A variant: the entries are left in the order of the keys.
LeaveEntries(slices) == slices

\* The entries of a map are sorted by their bytes, key and value together.
sort_last_entries(slices) == SortSeq(slices, LexLess)

SerializeAll(ts, vs) == FlattenSeq([i \in DOMAIN ts |-> Serialize(ts[i], vs[i])])

Serialize(t, v) ==
  CASE t.k = "u8"     -> <<v>>
    [] t.k = "uint"   -> serialize_uint(v)
    [] t.k = "bool"   -> <<IF v THEN 1 ELSE 0>>
    [] t.k = "str"    -> serialize_u32_as_uleb128(Len(v)) \o v
    [] t.k = "vec"    -> serialize_u32_as_uleb128(Len(v))
                           \o SerializeAll(Copies(t.of, Len(v)), v)
    [] t.k = "array"  -> SerializeAll(Copies(t.of, t.n), v)
    [] t.k = "opt"    -> <<Len(v)>> \o SerializeAll(Copies(t.of, Len(v)), v)
    [] t.k = "map"    -> serialize_u32_as_uleb128(Len(v))
                           \o FlattenSeq(sort_last_entries(
                                [i \in DOMAIN v |-> SerializeAll(Entry(t), v[i])]))
    [] t.k \in {"tuple", "struct"} -> SerializeAll(t.parts, v)
    [] t.k = "enum"   -> serialize_u32_as_uleb128(v.index)
                           \o SerializeAll(t.cases[v.index + 1], v.args)
    [] t.k = "ptr"    -> Serialize(Definition(t.name), v)

\* The deepest nesting of structs, which increase_container_depth bounds.
DeepestOf(ts, vs) == Max({0} \cup {Depth(ts[i], vs[i]) : i \in DOMAIN ts})

Depth(t, v) ==
  CASE t.k \in {"u8", "uint", "bool", "str"} -> 0
    [] t.k \in {"vec", "opt"} -> DeepestOf(Copies(t.of, Len(v)), v)
    [] t.k = "array"  -> DeepestOf(Copies(t.of, t.n), v)
    [] t.k = "map"    -> Max({0} \cup {DeepestOf(Entry(t), v[i]) : i \in DOMAIN v})
    [] t.k = "tuple"  -> DeepestOf(t.parts, v)
    [] t.k = "struct" -> 1 + DeepestOf(t.parts, v)
    [] t.k = "enum"   -> 1 + DeepestOf(t.cases[v.index + 1], v.args)
    [] t.k = "ptr"    -> Depth(Definition(t.name), v)

Serializable(t, v) == Depth(t, v) <= MaxDepth

----------------------------------------------------------------------------
\* Reading.  A result is a value and the position after it, or an exception.

Throws      == [ok |-> FALSE]
Got(v, pos) == [ok |-> TRUE, v |-> v, pos |-> pos]

read_bytes(b, pos, n) ==
  IF pos + n > Len(b) THEN Throws
  ELSE Got(SubSeq(b, pos + 1, pos + n), pos + n)

\* At most five digits.  What is above 2^31 - 1 is refused by both callers, as
\* a length or as an unknown index, and so is an overflow of 32 bits.
UlebFrom(b, pos, shift, value) ==
  LET byte  == b[pos + 1]
      digit == byte % 128
      sum   == value + digit * 2^shift
  IN  CASE pos >= Len(b) \/ shift >= 32   -> Throws
        [] shift = 28 /\ digit >= 8       -> Throws
        [] byte >= 128                    -> UlebFrom(b, pos + 1, shift + 7, sum)
        [] shift > 0 /\ digit = 0         -> Throws
        [] OTHER                          -> Got(sum, pos + 1)

deserialize_uleb128_as_u32(b, pos) == UlebFrom(b, pos, 0, 0)

\* is_valid_utf8: what a byte may be when `left` bytes of a character are due.
ValidFrom(s, left) ==
  IF s = <<>> THEN left = 0
  ELSE LET byte == Head(s) IN
       IF left > 0 THEN byte \div 64 = 2 /\ ValidFrom(Tail(s), left - 1)
       ELSE CASE byte \div 128 = 0 -> ValidFrom(Tail(s), 0)
              [] byte \div 32 = 6  -> ValidFrom(Tail(s), 1)
              [] byte \div 16 = 14 -> ValidFrom(Tail(s), 2)
              [] byte \div 8 = 30  -> ValidFrom(Tail(s), 3)
              [] OTHER             -> FALSE

is_valid_utf8(s) == ValidFrom(s, 0)

deserialize_u8(b, pos) ==
  LET r == read_bytes(b, pos, 1) IN IF r.ok THEN Got(r.v[1], r.pos) ELSE Throws

deserialize_uint(b, pos, n) ==
  LET r == read_bytes(b, pos, n) IN
  IF r.ok THEN Got(Reverse(r.v), r.pos) ELSE Throws

\* A variant: any byte but zero is taken for true.
BoolLenient(b, pos) ==
  LET r == read_bytes(b, pos, 1) IN
  IF r.ok THEN Got(r.v[1] # 0, r.pos) ELSE Throws

deserialize_bool(b, pos) ==
  LET r == read_bytes(b, pos, 1) IN
  IF r.ok /\ r.v[1] <= 1 THEN Got(r.v[1] = 1, r.pos) ELSE Throws

deserialize_str(b, pos) ==
  LET n == deserialize_uleb128_as_u32(b, pos) IN
  IF ~n.ok \/ n.v > Len(b) - n.pos THEN Throws
  ELSE LET r == read_bytes(b, n.pos, n.v) IN
       IF is_valid_utf8(r.v) THEN r ELSE Throws

\* The keys of consecutive entries, as they lie in the bytes.
check_that_key_slices_are_increasing(keys) ==
  \A i \in 1 .. Len(keys) - 1 : LexLess(keys[i], keys[i + 1])

DeserializeAll(ts, b, pos, budget) ==
  IF ts = <<>> THEN Got(<<>>, pos)
  ELSE LET h == Deserialize(Head(ts), b, pos, budget) IN
       IF ~h.ok THEN Throws
       ELSE LET r == DeserializeAll(Tail(ts), b, h.pos, budget) IN
            IF r.ok THEN Got(<<h.v>> \o r.v, r.pos) ELSE Throws

\* A counted sequence of parts, each of which takes at least a byte.
DeserializeMany(t, b, pos, budget) ==
  LET n == deserialize_uleb128_as_u32(b, pos) IN
  IF ~n.ok \/ n.v > Len(b) - n.pos THEN Throws
  ELSE DeserializeAll(Copies(t, n.v), b, n.pos, budget)

Deserialize(t, b, pos, budget) ==
  CASE t.k = "u8"     -> deserialize_u8(b, pos)
    [] t.k = "uint"   -> deserialize_uint(b, pos, t.n)
    [] t.k = "bool"   -> deserialize_bool(b, pos)
    [] t.k = "str"    -> deserialize_str(b, pos)
    [] t.k = "vec"    -> DeserializeMany(t.of, b, pos, budget)
    [] t.k = "array"  -> DeserializeAll(Copies(t.of, t.n), b, pos, budget)
    [] t.k = "tuple"  -> DeserializeAll(t.parts, b, pos, budget)
    [] t.k = "opt"    -> LET tag == deserialize_bool(b, pos) IN
                         IF ~tag.ok THEN Throws
                         ELSE DeserializeAll(IF tag.v THEN <<t.of>> ELSE <<>>,
                                             b, tag.pos, budget)
    [] t.k = "map"    -> LET r == DeserializeMany(Tuple(Entry(t)), b, pos, budget) IN
                         IF r.ok /\ check_that_key_slices_are_increasing(
                                      [i \in DOMAIN r.v |-> Serialize(t.key, r.v[i][1])])
                         THEN Got(SortSeq(r.v, KeyLess), r.pos) ELSE Throws
    [] t.k = "struct" -> IF budget = 0 THEN Throws
                         ELSE DeserializeAll(t.parts, b, pos, budget - 1)
    [] t.k = "enum"   -> \* the index that `>` lets through is stopped by at()
                         LET i == deserialize_uleb128_as_u32(b, pos) IN
                         IF budget = 0 \/ ~i.ok \/ i.v >= Len(t.cases) THEN Throws
                         ELSE LET r == DeserializeAll(t.cases[i.v + 1], b, i.pos, budget - 1)
                              IN  IF r.ok THEN Got([index |-> i.v, args |-> r.v], r.pos)
                                  ELSE Throws
    [] t.k = "ptr"    -> Deserialize(Definition(t.name), b, pos, budget)

\* bcsDeserialize: "Some input bytes were not read"
bcsDeserialize(t, b) ==
  LET r == Deserialize(t, b, 0, MaxDepth) IN
  IF r.ok /\ r.pos = Len(b) THEN r ELSE Throws
=============================================================================
