-------------------------------- MODULE Wire --------------------------------
(***************************************************************************)
(* protocol.Writer and protocol.Reader: the types of the wire format as    *)
(* sequences of bytes, and messages as formats, sequences of typed fields. *)
(*                                                                         *)
(* A write operator gives the bytes it appends. A read operator takes the  *)
(* buffer and a position, counted from 0, and gives what it read and the   *)
(* position after it, or Fail. Strings are sequences of bytes. Integers    *)
(* are those TLC has, so 64-bit ones beyond 32 bits do not occur.          *)
(***************************************************************************)
EXTENDS Integers, Sequences, FiniteSets, SequencesExt

Null == <<-1>>                       \* nil
Fail == [v |-> Null, p |-> -1]       \* an error is returned
Failed(r) == r.p < 0

(***************************************************************************)
(* Integers.                                                               *)
(***************************************************************************)

\* Mutant of WriteInt: the bytes keep their higher bits.
WriteIntUnmasked(x, w) == [i \in 1 .. w |-> IF w - i < 4 THEN x \div 256^(w - i) ELSE 0]

\* WriteInt8, WriteInt16, WriteInt32, WriteInt64: x in w bytes, big-endian.
WriteInt(x, w) ==
    [i \in 1 .. w |-> LET k == w - i IN
        IF k < 4 THEN (x \div 256^k) % 256
        ELSE IF x < 0 THEN 255 ELSE 0]

\* require(n), then the n bytes at p. A negative length is not looked for in the
\* code, where it is a slice out of range; no writer makes one.
Take(b, p, n) ==
    IF p < 0 \/ n < 0 \/ p + n > Len(b) THEN Fail
    ELSE [v |-> SubSeq(b, p + 1, p + n), p |-> p + n]

\* ReadInt8, ReadInt16, ReadInt32, ReadInt64.
ReadInt(b, p, w) ==
    LET first[i \in 1 .. w] ==
            IF i > 1 THEN 256 * first[i - 1] + b[p + i]
            ELSE IF b[p + 1] < 128 THEN b[p + 1] ELSE b[p + 1] - 256
    IN IF Failed(Take(b, p, w)) THEN Fail ELSE [v |-> first[w], p |-> p + w]

WriteBool(x) == <<IF x THEN 1 ELSE 0>>

ReadBool(b, p) ==
    LET r == Take(b, p, 1)
    IN IF Failed(r) THEN Fail ELSE [r EXCEPT !.v = (@ # <<0>>)]

WriteUVarInt(x) ==
    LET rest[n \in Nat] ==
            IF n >= 128 THEN <<128 + (n % 128)>> \o rest[n \div 128] ELSE <<n>>
    IN rest[x]

\* Ten groups of seven bits hold 64: more is an overflow.
ReadUVarInt(b, p) ==
    LET scan[q \in Nat, k \in Nat, x \in Nat] ==
            IF q >= Len(b) \/ k = 10 \/ (k = 9 /\ b[q + 1] > 1) THEN Fail
            ELSE IF b[q + 1] < 128
                 THEN [v |-> x + b[q + 1] * 128^k, p |-> q + 1]
            ELSE scan[q + 1, k + 1, x + (b[q + 1] - 128) * 128^k]
    IN IF p < 0 THEN Fail ELSE scan[p, 0, 0]

\* The number of bytes of WriteUVarInt(x), by the position of its highest bit.
UVarIntSize(x) ==
    LET bits[n \in Nat] == IF n = 0 THEN 0 ELSE 1 + bits[n \div 2]
    IN IF x = 0 THEN 1 ELSE (bits[x] + 6) \div 7

\* WriteVarInt and ReadVarInt: negative numbers are the odd ones.
WriteVarInt(x) == WriteUVarInt(IF x >= 0 THEN 2 * x ELSE -2 * x - 1)

ReadVarInt(b, p) ==
    LET r == ReadUVarInt(b, p)
    IN IF Failed(r) THEN Fail
       ELSE [r EXCEPT !.v = IF @ % 2 = 0 THEN @ \div 2 ELSE -(@ \div 2) - 1]

(***************************************************************************)
(* Strings, bytes and records.                                             *)
(***************************************************************************)

WriteString(s) == WriteInt(Len(s), 2) \o s

ReadString(b, p) == LET n == ReadInt(b, p, 2) IN Take(b, n.p, n.v)

WriteNullableString(s) == IF s = Null THEN WriteInt(-1, 2) ELSE WriteString(s)

\* An empty string is refused.
ReadNullableString(b, p) ==
    LET n == ReadInt(b, p, 2)
    IN IF Failed(n) THEN Fail
       ELSE IF n.v = -1 THEN [v |-> Null, p |-> n.p]
       ELSE IF n.v < 1 THEN Fail
       ELSE Take(b, n.p, n.v)

WriteCompactString(s) == WriteUVarInt(Len(s) + 1) \o s

ReadCompactString(b, p) ==
    LET n == ReadUVarInt(b, p) IN IF Failed(n) THEN Fail ELSE Take(b, n.p, n.v - 1)

WriteCompactNullableString(s) ==
    IF s = Null THEN WriteUVarInt(0) ELSE WriteCompactString(s)

ReadCompactNullableString(b, p) ==
    LET n == ReadUVarInt(b, p)
    IN IF Failed(n) THEN Fail
       ELSE IF n.v = 0 THEN [v |-> Null, p |-> n.p]
       ELSE Take(b, n.p, n.v - 1)

WriteCompactRecords(s) ==
    IF s = Null THEN WriteUVarInt(0) ELSE WriteUVarInt(Len(s) + 1) \o s

ReadCompactRecords(b, p) ==
    LET n == ReadUVarInt(b, p)
    IN IF Failed(n) THEN Fail
       ELSE IF n.v = 0 THEN [v |-> Null, p |-> n.p]
       ELSE Take(b, n.p, n.v - 1)

\* -1 is a null array.
WriteCompactArrayLen(n) == WriteUVarInt(n + 1)

ReadCompactArrayLen(b, p) ==
    LET n == ReadUVarInt(b, p)
    IN IF Failed(n) THEN Fail ELSE [n EXCEPT !.v = @ - 1]

WriteEmptyTaggedFields == <<0>>

\* ReadTaggedFields skips them all.
ReadTaggedFields(b, p) ==
    LET count == ReadUVarInt(b, p)
        skip[i \in Nat, q \in Int] ==
            IF i = 0 THEN [v |-> Null, p |-> q]
            ELSE LET size == ReadUVarInt(b, ReadUVarInt(b, q).p)
                     value == Take(b, size.p, IF Failed(size) THEN 0 ELSE size.v)
                 IN IF Failed(value) THEN Fail ELSE skip[i - 1, value.p]
    IN IF Failed(count) THEN Fail ELSE skip[count.v, count.p]

(***************************************************************************)
(* Messages. A field of a format is a record: name and type of a plain     *)
(* field; of is the format of an array's elements; a field of type tagged  *)
(* has in of the fields it may carry, numbered from 0, each of which is a  *)
(* sequence: <<>> when it is nil, <<x>> when it is x.                      *)
(***************************************************************************)

F(name, type) == [name |-> name, type |-> type, of |-> <<>>]
Arr(name, fmt) == [name |-> name, type |-> "array", of |-> fmt]
Ints(name) == F(name, "ints")
Struct(name, fmt) == [name |-> name, type |-> "struct", of |-> fmt]
Tagged(fields) == [name |-> "", type |-> "tagged", of |-> fields]
Tags == F("", "tags")

RECURSIVE WriteField(_, _)

\* The calls of an Encode method, for value v, a record of the fields.
Write(fmt, v) == FlattenSeq([i \in DOMAIN fmt |-> WriteField(fmt[i], v)])

\* Tagged fields that are present: how many, then number, size and bytes of each.
WriteTagged(fields, v) ==
    LET value(i) == v[fields[i].name]
        put(i) == IF value(i) = <<>> THEN <<>>
                  ELSE LET bytes == WriteField(fields[i], fields[i].name :> value(i)[1])
                       IN WriteUVarInt(i - 1) \o WriteUVarInt(Len(bytes)) \o bytes
        present == {i \in DOMAIN fields : value(i) # <<>>}
    IN WriteUVarInt(Cardinality(present)) \o FlattenSeq([i \in DOMAIN fields |-> put(i)])

WriteField(f, v) ==
    CASE f.type = "bool" -> WriteBool(v[f.name])
      [] f.type = "int8" -> WriteInt(v[f.name], 1)
      [] f.type = "int16" -> WriteInt(v[f.name], 2)
      [] f.type = "int32" -> WriteInt(v[f.name], 4)
      [] f.type = "int64" -> WriteInt(v[f.name], 8)
      [] f.type = "uuid" -> v[f.name]
      [] f.type = "string" -> WriteString(v[f.name])
      [] f.type = "nullable" -> WriteNullableString(v[f.name])
      [] f.type = "compact" -> WriteCompactString(v[f.name])
      [] f.type = "compactNullable" -> WriteCompactNullableString(v[f.name])
      [] f.type = "records" -> WriteCompactRecords(v[f.name])
      [] f.type = "array" ->
            WriteCompactArrayLen(Len(v[f.name])) \o
            FlattenSeq([i \in DOMAIN v[f.name] |-> Write(f.of, v[f.name][i])])
      [] f.type = "ints" ->
            WriteCompactArrayLen(Len(v[f.name])) \o
            FlattenSeq([i \in DOMAIN v[f.name] |-> WriteInt(v[f.name][i], 4)])
      [] f.type = "struct" -> Write(f.of, v[f.name])
      [] f.type = "tagged" -> WriteTagged(f.of, v)
      [] f.type = "tags" -> WriteEmptyTaggedFields

RECURSIVE ReadField(_, _, _)

\* r with x, the value of field f, read after it.
With(r, f, x) ==
    CASE Failed(x) -> Fail
      [] f.type = "tags" -> [r EXCEPT !.p = x.p]
      [] f.type = "tagged" -> [v |-> r.v @@ x.v, p |-> x.p]
      [] OTHER -> [v |-> r.v @@ (f.name :> x.v), p |-> x.p]

\* The calls of a Decode method: a record of the fields.
Read(fmt, b, p) ==
    FoldLeft(LAMBDA r, f : IF Failed(r) THEN Fail ELSE With(r, f, ReadField(f, b, r.p)),
             [v |-> [x \in {} |-> 0], p |-> p], fmt)

\* r with one more element, x.
WithElement(r, x) == IF Failed(x) THEN Fail ELSE [v |-> Append(r.v, x.v), p |-> x.p]

\* The elements of an array, each read by readOne; len is its length as it was
\* read, -1 for a null array, which has none.
ReadElements(readOne(_), len) ==
    IF Failed(len) THEN Fail
    ELSE FoldLeft(LAMBDA r, i : IF Failed(r) THEN Fail ELSE WithElement(r, readOne(r.p)),
                  [v |-> <<>>, p |-> len.p], [i \in 1 .. len.v |-> i])

\* r with x, the value of a tagged field.
WithTag(r, name, x) ==
    IF Failed(x) THEN Fail ELSE [v |-> [r.v EXCEPT ![name] = <<x.v>>], p |-> x.p]

\* A tagged field whose number and size were read: the size is not used, and the
\* bytes of an unknown field are looked at and not passed.
ReadTag(r, fields, b, tag, size) ==
    IF Failed(size) THEN Fail
    ELSE IF tag.v < Len(fields)
         THEN WithTag(r, fields[tag.v + 1].name, ReadField(fields[tag.v + 1], b, size.p))
    ELSE IF Failed(Take(b, size.p, size.v)) \/ size.p >= Len(b) THEN Fail
    ELSE [r EXCEPT !.p = size.p]

\* decodeTaggedFields: fields that are not sent are nil.
ReadTagged(fields, b, count) ==
    LET none == [x \in {fields[i].name : i \in DOMAIN fields} |-> <<>>]
        one(r, tag) == ReadTag(r, fields, b, tag, ReadUVarInt(b, tag.p))
    IN IF Failed(count) THEN Fail
       ELSE FoldLeft(LAMBDA r, i : IF Failed(r) THEN Fail ELSE one(r, ReadUVarInt(b, r.p)),
                     [v |-> none, p |-> count.p], [i \in 1 .. count.v |-> i])

ReadField(f, b, p) ==
    CASE f.type = "bool" -> ReadBool(b, p)
      [] f.type = "int8" -> ReadInt(b, p, 1)
      [] f.type = "int16" -> ReadInt(b, p, 2)
      [] f.type = "int32" -> ReadInt(b, p, 4)
      [] f.type = "int64" -> ReadInt(b, p, 8)
      [] f.type = "uuid" -> Take(b, p, 16)
      [] f.type = "string" -> ReadString(b, p)
      [] f.type = "nullable" -> ReadNullableString(b, p)
      [] f.type = "compact" -> ReadCompactString(b, p)
      [] f.type = "compactNullable" -> ReadCompactNullableString(b, p)
      [] f.type = "records" -> ReadCompactRecords(b, p)
      [] f.type = "array" ->
            ReadElements(LAMBDA q : Read(f.of, b, q), ReadCompactArrayLen(b, p))
      [] f.type = "ints" ->
            ReadElements(LAMBDA q : ReadInt(b, q, 4), ReadCompactArrayLen(b, p))
      [] f.type = "struct" -> Read(f.of, b, p)
      [] f.type = "tagged" -> ReadTagged(f.of, b, ReadUVarInt(b, p))
      [] f.type = "tags" -> ReadTaggedFields(b, p)
=============================================================================
