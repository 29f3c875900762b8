------------------------------ MODULE BcsWire -------------------------------
(***************************************************************************)
(* One value on its way from a writer to a reader: bcsSerialize, bytes     *)
(* that may be damaged, cut or continued, and bcsDeserialize or BcsSerde.  *)
(***************************************************************************)
EXTENDS DiemTypes, BcsSerde

CONSTANTS
  Messages,   \* pairs of a type and a value of it
  Damage,     \* the bytes that may stand for another one
  Lengths     \* lengths and indexes, written alone

VARIABLE wire

NoMessage == [at |-> "none"]
Put(t, x) == [at |-> "written", type |-> t, value |-> x, bytes |-> Serialize(t, x),
              whole |-> TRUE]

WireInit == wire = NoMessage

\* bcsSerialize throws for a value that is nested too deeply; the bytes are
\* those of a writer without the limit.
Write ==
  /\ wire = NoMessage
  /\ \E m \in Messages : wire' = Put(m[1], m[2])

WriteLength ==
  /\ wire = NoMessage
  /\ \E n \in Lengths :
       wire' = [at |-> "length", n |-> n, bytes |-> serialize_u32_as_uleb128(n)]

Change ==
  \E i \in DOMAIN wire.bytes, x \in Damage :
    wire' = [wire EXCEPT !.bytes[i] = x, !.whole = FALSE]
Cut ==
  /\ wire.bytes # <<>>
  /\ wire' = [wire EXCEPT !.bytes = Front(@), !.whole = FALSE]
Continue ==
  \E x \in Damage : wire' = [wire EXCEPT !.bytes = Append(@, x), !.whole = FALSE]

Damaged ==
  /\ wire.at = "written" /\ wire.whole
  /\ Change \/ Cut \/ Continue

WireNext == Write \/ WriteLength \/ Damaged

----------------------------------------------------------------------------
RECURSIVE Has(_, _)
\* A value of kind k lies in type t.
Has(t, k) ==
  \/ t.k = k
  \/ t.k \in {"vec", "array", "opt", "map"} /\ Has(t.of, k)
  \/ t.k = "map" /\ Has(t.key, k)
  \/ t.k \in {"tuple", "struct"} /\ \E i \in DOMAIN t.parts : Has(t.parts[i], k)
  \/ t.k = "enum" /\ \E i \in DOMAIN t.cases, j \in 1 .. 4 :
       j \in DOMAIN t.cases[i] /\ Has(t.cases[i][j], k)

\* What bcsSerialize writes, bcsDeserialize reads back as the same value, maps
\* included, although their entries are sorted by key and value together; and
\* the two sides agree on which values are nested too deeply.
RoundTrip ==
  (wire.at = "written" /\ wire.whole) =>
    LET r == bcsDeserialize(wire.type, wire.bytes) IN
    IF Serializable(wire.type, wire.value) THEN r.ok /\ r.v = wire.value ELSE ~r.ok

\* Bytes that bcsDeserialize accepts, whoever changed them, are the ones that
\* bcsSerialize writes for the value: a signature covers one reading only, and
\* no second encoding of a transaction is accepted.
Canonical ==
  wire.at = "written" =>
    LET r == bcsDeserialize(wire.type, wire.bytes) IN
    r.ok => Serialize(wire.type, r.v) = wire.bytes

\* The two serialisers agree.  BcsSerde writes what bcsSerialize writes, for the
\* types without a map; it reads back what bcsSerialize wrote and stops where
\* that stopped, for the types without a variant; and a length or an index is
\* read back whole by the generated reader up to 2^31 - 1 and by decode_integer
\* below 2^28, above which it drops the fifth digit and leaves it in the bytes.
SerialisersAgree ==
  /\ (wire.at = "written" /\ wire.whole /\ ~Has(wire.type, "map")) =>
       Encode(wire.type, wire.value) = wire.bytes
  /\ (wire.at = "written" /\ wire.whole /\ ~Has(wire.type, "enum")) =>
       \A rest \in {<<>>, <<1>>} :
         Decode(wire.type, wire.bytes \o rest, 0) = Got(wire.value, Len(wire.bytes))
  /\ wire.at = "length" =>
       /\ deserialize_uleb128_as_u32(wire.bytes, 0) = Got(wire.n, Len(wire.bytes))
       /\ encode_integer(wire.n) = wire.bytes
       /\ decode_integer(wire.bytes, 0) =
            IF wire.n < 2^28 THEN Got(wire.n, Len(wire.bytes))
                             ELSE Got(wire.n % 2^28, Len(wire.bytes) - 1)
=============================================================================
