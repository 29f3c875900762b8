------------------------------ MODULE BcsSerde ------------------------------
(***************************************************************************)
(* The SDK's own BcsSerde (cpp/sdk/include/bcs_serde.hpp) over the types   *)
(* of module Bcs.                                                          *)
(***************************************************************************)
EXTENDS Bcs

RECURSIVE encode_integer(_)
RECURSIVE Encode(_, _)
RECURSIVE Decode(_, _, _)
RECURSIVE DecodeAll(_, _, _)

----------------------------------------------------------------------------
\* Writing.  Maps are written in the order of their keys.

encode_integer(n) ==
  IF n \div 128 = 0 THEN <<n>> ELSE <<128 + (n % 128)>> \o encode_integer(n \div 128)

EncodeAll(ts, vs) == FlattenSeq([i \in DOMAIN ts |-> Encode(ts[i], vs[i])])

Encode(t, v) ==
  CASE t.k = "u8"    -> <<v>>
    [] t.k = "uint"  -> Reverse(v)
    [] t.k = "bool"  -> <<IF v THEN 1 ELSE 0>>
    [] t.k = "str"   -> encode_integer(Len(v)) \o v
    [] t.k = "vec"   -> encode_integer(Len(v)) \o EncodeAll(Copies(t.of, Len(v)), v)
    [] t.k = "array" -> EncodeAll(Copies(t.of, t.n), v)
    [] t.k = "opt"   -> <<Len(v)>> \o EncodeAll(Copies(t.of, Len(v)), v)
    [] t.k = "map"   -> encode_integer(Len(v))
                          \o FlattenSeq([i \in DOMAIN v |-> EncodeAll(Entry(t), v[i])])
    [] t.k \in {"tuple", "struct"} -> EncodeAll(t.parts, v)
    [] t.k = "enum"  -> encode_integer(v.index) \o EncodeAll(t.cases[v.index + 1], v.args)
    [] t.k = "ptr"   -> Encode(Definition(t.name), v)

----------------------------------------------------------------------------
\* Reading.  Nothing is checked: Throws stands for a read past the end of the
\* bytes, whose outcome is undefined.

\* ULEB128 of at most `rounds` digits.
Digits(b, pos, rounds) ==
  LET n        == Min({i \in 1 .. rounds : i = rounds \/ (pos + i <= Len(b) /\ b[pos + i] < 128)})
      Worth(i) == (b[pos + i] % 128) * 2^(7 * (i - 1))
  IN  IF pos + n > Len(b) THEN Throws ELSE Got(MapThenSumSet(Worth, 1 .. n), pos + n)

\* A variant: the loop makes two rounds.
DecodeTwo(b, pos)      == Digits(b, pos, 2)
decode_integer(b, pos) == Digits(b, pos, 4)

\* std::map::insert keeps the first of two entries with one key.
Inserted(entries) ==
  LET First(k) == entries[Min({i \in DOMAIN entries : entries[i][1] = k})]
  IN  SetToSortSeq({First(entries[i][1]) : i \in DOMAIN entries}, KeyLess)

DecodeAll(ts, b, pos) ==
  IF ts = <<>> THEN Got(<<>>, pos)
  ELSE LET h == Decode(Head(ts), b, pos) IN
       IF ~h.ok THEN Throws
       ELSE LET r == DecodeAll(Tail(ts), b, h.pos) IN
            IF r.ok THEN Got(<<h.v>> \o r.v, r.pos) ELSE Throws

DecodeMany(t, b, pos) ==
  LET n == decode_integer(b, pos) IN
  IF ~n.ok \/ n.v > Len(b) - n.pos THEN Throws ELSE DecodeAll(Copies(t, n.v), b, n.pos)

Decode(t, b, pos) ==
  CASE t.k = "u8"    -> deserialize_u8(b, pos)
    [] t.k = "uint"  -> deserialize_uint(b, pos, t.n)
    [] t.k = "bool"  -> BoolLenient(b, pos)
    [] t.k = "str"   -> DecodeMany(U8, b, pos)
    [] t.k = "vec"   -> DecodeMany(t.of, b, pos)
    [] t.k = "array" -> DecodeAll(Copies(t.of, t.n), b, pos)
    [] t.k \in {"tuple", "struct"} -> DecodeAll(t.parts, b, pos)
    [] t.k = "opt"   -> LET flag == BoolLenient(b, pos) IN
                        IF ~flag.ok THEN Throws
                        ELSE DecodeAll(IF flag.v THEN <<t.of>> ELSE <<>>, b, flag.pos)
    [] t.k = "map"   -> LET r == DecodeMany(Tuple(Entry(t)), b, pos) IN
                        IF r.ok THEN Got(Inserted(r.v), r.pos) ELSE Throws
    [] t.k = "enum"  -> \* the index is read and dropped
                        LET i == decode_integer(b, pos) IN
                        IF ~i.ok THEN Throws
                        ELSE LET r == DecodeAll(t.cases[1], b, i.pos)
                             IN  IF r.ok THEN Got([index |-> 0, args |-> r.v], r.pos)
                                 ELSE Throws
    [] t.k = "ptr"   -> Decode(Definition(t.name), b, pos)
=============================================================================
