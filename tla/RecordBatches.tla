--------------------------- MODULE RecordBatches ----------------------------
(***************************************************************************)
(* The records of the metadata log (protocol/metadata/metadata_record.go), *)
(* the batches that wrap them (protocol/metadata/record_batch.go), and the *)
(* code that reads batches: the metadata and replica fetchers, the produce *)
(* handler and the segment files.                                          *)
(*                                                                         *)
(* A slice out of range, a panic in the code, is Fail here. Batches are    *)
(* not compressed. A checksum is its own value: nothing compares it.       *)
(***************************************************************************)
EXTENDS Wire

(***************************************************************************)
(* Metadata records: a type byte, a version byte and the fields.           *)
(***************************************************************************)

WriteInts(s) == WriteInt(Len(s), 4) \o FlattenSeq([i \in DOMAIN s |-> WriteInt(s[i], 4)])

\* r with the integers after it read into field name.
AndInts(r, name, b) ==
    IF Failed(r) THEN Fail
    ELSE With(r, Ints(name), ReadElements(LAMBDA q : ReadInt(b, q, 4), ReadInt(b, r.p, 4)))

BrokerRecordFields ==
    <<F("BrokerId", "int32"), F("Epoch", "int64"), F("Host", "string"), F("Port", "int32")>>

BrokerRecordEncode(r) == <<0, 0>> \o Write(BrokerRecordFields, r)

DecodeBrokerRecord(payload) == Read(BrokerRecordFields, payload, 0)

TopicRecordEncode(r) ==
    <<1, 1>> \o Write(<<F("TopicId", "uuid"), F("NumPartitions", "int32"), F("Name", "string"),
                        F("MinInsyncReplicas", "int16")>>, r)

\* Mutant of DecodeTopicRecord: the last field is taken from version 2 on.
DecodeTopicRecordLater(payload, version) ==
    LET r == Read(<<F("TopicId", "uuid"), F("NumPartitions", "int32"), F("Name", "string")>>,
                  payload, 0)
        m == ReadInt(payload, r.p, 2)
    IN IF Failed(r) THEN Fail
       ELSE IF version >= 2 /\ ~Failed(m)
            THEN [v |-> r.v @@ ("MinInsyncReplicas" :> m.v), p |-> m.p]
       ELSE [v |-> r.v @@ ("MinInsyncReplicas" :> 1), p |-> r.p]

\* A record of version 0, or one without the last field, has a minimum of 1.
DecodeTopicRecord(payload, version) ==
    LET r == Read(<<F("TopicId", "uuid"), F("NumPartitions", "int32"), F("Name", "string")>>,
                  payload, 0)
        m == ReadInt(payload, r.p, 2)
    IN IF Failed(r) THEN Fail
       ELSE IF version >= 1 /\ ~Failed(m)
            THEN [v |-> r.v @@ ("MinInsyncReplicas" :> m.v), p |-> m.p]
       ELSE [v |-> r.v @@ ("MinInsyncReplicas" :> 1), p |-> r.p]

PartitionRecordFields ==
    <<F("TopicId", "uuid"), F("PartitionId", "int32"), F("Leader", "int32"),
      F("LeaderEpoch", "int32")>>

PartitionRecordEncode(r) ==
    <<2, 0>> \o Write(PartitionRecordFields, r) \o WriteInts(r.Replicas) \o WriteInts(r.ISR)

DecodePartitionRecord(payload) ==
    AndInts(AndInts(Read(PartitionRecordFields, payload, 0), "Replicas", payload),
            "ISR", payload)

ProducerIdsRecordFields ==
    <<F("BrokerId", "int32"), F("BrokerEpoch", "int64"), F("NextProducerId", "int64")>>

ProducerIdsRecordEncode(r) == <<3, 0>> \o Write(ProducerIdsRecordFields, r)

DecodeProducerIdsRecord(payload) == Read(ProducerIdsRecordFields, payload, 0)

\* Decode: the type byte says which.
DecodeMetadataRecord(b) ==
    LET payload == SubSeq(b, 3, Len(b))
    IN IF Len(b) < 2 THEN Fail
       ELSE CASE b[1] = 0 -> DecodeBrokerRecord(payload)
              [] b[1] = 1 -> DecodeTopicRecord(payload, b[2])
              [] b[1] = 2 -> DecodePartitionRecord(payload)
              [] b[1] = 3 -> DecodeProducerIdsRecord(payload)
              [] OTHER -> Fail

(***************************************************************************)
(* Batches. The header has 61 bytes: the base offset at 0, the length of   *)
(* what follows at 8, the offset of the last record at 23, the producer at *)
(* 43 and the number of records at 57.                                     *)
(***************************************************************************)

\* encodeRecord: no key, no headers.
EncodeRecord(value) ==
    LET body == <<0>> \o WriteVarInt(0) \o WriteVarInt(0) \o WriteVarInt(-1) \o
                WriteVarInt(Len(value)) \o value \o WriteVarInt(0)
    IN WriteVarInt(Len(body)) \o body

\* crc32: a stand-in, which takes four bytes as well.
Checksum(bytes) == Len(bytes)

\* EncodeAsRecordBatch, at time now.
EncodeAsRecordBatch(value, now) ==
    LET afterCRC == WriteInt(0, 2) \o WriteInt(0, 4) \o WriteInt(now, 8) \o WriteInt(now, 8) \o
                    WriteInt(-1, 8) \o WriteInt(-1, 2) \o WriteInt(-1, 4) \o WriteInt(1, 4) \o
                    EncodeRecord(value)
    IN WriteInt(0, 8) \o WriteInt(4 + 1 + 4 + Len(afterCRC), 4) \o WriteInt(-1, 4) \o <<2>> \o
       WriteInt(Checksum(afterCRC), 4) \o afterCRC

\* AppendRaw writes the base offset of the log into the batch.
PatchBaseOffset(batch, offset) == WriteInt(offset, 8) \o SubSeq(batch, 9, Len(batch))

\* The size of the batch at pos: 12 bytes and the length it states.
BatchSize(raw, pos) == 12 + ReadInt(raw, pos + 8, 4).v

\* The position after a length and as many bytes; a negative length has none.
PastSized(data, p) ==
    LET n == ReadVarInt(data, p)
    IN IF Failed(n) THEN -1 ELSE n.p + IF n.v > 0 THEN n.v ELSE 0

\* The position after a record's length, attributes, timestamp and offset.
PastRecordHead(data, p) ==
    ReadVarInt(data, ReadVarInt(data, Take(data, ReadVarInt(data, p).p, 1).p).p).p

\* The position after n headers, each a key and a value; errors are ignored.
PastHeaders(data, p, n) ==
    FoldLeft(LAMBDA q, i : LET past == PastSized(data, q)
                           IN IF past < 0 THEN Len(data) ELSE past,
             p, [i \in 1 .. 2 * n |-> i])

\* The values of n records, those that are not empty; what cannot be read ends them.
RecordValues(data, n) ==
    LET one(r) ==
            LET value == ReadVarInt(data, PastSized(data, PastRecordHead(data, r.p)))
                bytes == Take(data, value.p, value.v)
                there == value.v > 0 /\ ~Failed(bytes)
                headers == ReadVarInt(data, IF there THEN bytes.p ELSE value.p)
            IN IF Failed(value) THEN [r EXCEPT !.p = -1]
               ELSE [v |-> IF there THEN Append(r.v, bytes.v) ELSE r.v,
                     p |-> IF Failed(headers) THEN -1
                           ELSE PastHeaders(data, headers.p, headers.v)]
    IN FoldLeft(LAMBDA r, i : one(r), [v |-> <<>>, p |-> 0], [i \in 1 .. n |-> i]).v

\* Mutant of DecodeRecordValues: the last batch is taken though its end is missing.
DecodeRecordValuesCut(raw) ==
    LET from[pos \in Nat] ==
            IF Len(raw) - pos < 61 THEN <<>>
            ELSE LET n == ReadInt(raw, pos + 57, 4).v
                 IN RecordValues(SubSeq(raw, pos + 62, Len(raw)), n) \o
                    from[pos + BatchSize(raw, pos)]
    IN from[0]

\* DecodeRecordValues: the values of the batches that are there to their end.
DecodeRecordValues(raw) ==
    LET from[pos \in Nat] ==
            IF Len(raw) - pos < 61 \/ pos + BatchSize(raw, pos) > Len(raw) THEN <<>>
            ELSE LET end == pos + BatchSize(raw, pos)
                     n == ReadInt(raw, pos + 57, 4).v
                 IN RecordValues(SubSeq(raw, pos + 62, end), n) \o from[end]
    IN from[0]

\* countRecordsInRecordBatches: -1 for an error. The end of the last batch may be
\* missing.
CountRecords(raw) ==
    LET from[pos \in Nat] ==
            IF pos >= Len(raw) THEN 0
            ELSE IF Len(raw) - pos < 61 \/ BatchSize(raw, pos) < 24 THEN -1
            ELSE LET rest == from[pos + BatchSize(raw, pos)]
                 IN IF rest < 0 THEN -1 ELSE ReadInt(raw, pos + 57, 4).v + rest
    IN from[0]

\* walkBatchHeaders: what the recovery of producer state reads of a segment.
BatchHeaders(file) ==
    LET from[pos \in Nat] ==
            IF pos + 57 > Len(file) \/ pos + BatchSize(file, pos) > Len(file) THEN <<>>
            ELSE <<[BaseOffset |-> ReadInt(file, pos, 8).v,
                    LastOffsetDelta |-> ReadInt(file, pos + 23, 4).v,
                    ProducerId |-> ReadInt(file, pos + 43, 8).v,
                    ProducerEpoch |-> ReadInt(file, pos + 51, 2).v,
                    BaseSequence |-> ReadInt(file, pos + 53, 4).v]>> \o
                 from[pos + BatchSize(file, pos)]
    IN from[0]

\* scanLastOffset: the offset after the last whole batch of a file.
ScanLastOffset(file, base) ==
    LET from[pos \in Nat, next \in Nat] ==
            IF pos + 27 > Len(file) \/ pos + BatchSize(file, pos) > Len(file) THEN next
            ELSE from[pos + BatchSize(file, pos),
                      ReadInt(file, pos, 8).v + ReadInt(file, pos + 23, 4).v + 1]
    IN from[0, base]

\* decodeRecord of the produce handler, with what it keeps.
DecodeRecord(b, p) ==
    LET tsDelta == ReadVarInt(b, Take(b, ReadVarInt(b, p).p, 1).p)
        offDelta == ReadVarInt(b, tsDelta.p)
        keyLen == ReadVarInt(b, offDelta.p)
        key == Take(b, keyLen.p, IF keyLen.v > 0 THEN keyLen.v ELSE 0)
        valLen == ReadVarInt(b, key.p)
        value == Take(b, valLen.p, IF valLen.v > 0 THEN valLen.v ELSE 0)
        headers == ReadVarInt(b, value.p)
    IN IF Failed(offDelta) \/ Failed(keyLen) THEN Fail
       ELSE IF Failed(valLen) THEN Fail
       ELSE IF Failed(headers) THEN Fail
       ELSE [v |-> [OffsetDelta |-> offDelta.v, Key |-> key.v, Value |-> value.v],
             p |-> PastHeaders(b, headers.p, headers.v)]

\* DecodeRecordBatch: the first batch of raw; a batch without records is refused.
DecodeRecordBatch(raw) ==
    LET h == Read(<<F("BaseOffset", "int64"), F("BatchLength", "int32"),
                    F("PartitionLeaderEpoch", "int32"), F("Magic", "int8"), F("CRC", "int32"),
                    F("Attributes", "int16"), F("LastOffsetDelta", "int32"),
                    F("FirstTimestamp", "int64"), F("MaxTimestamp", "int64"),
                    F("ProducerId", "int64"), F("ProducerEpoch", "int16"),
                    F("BaseSequence", "int32"), F("RecordCount", "int32")>>, raw, 0)
        count == [v |-> h.v.RecordCount, p |-> h.p]
    IN IF Failed(h) \/ h.p >= Len(raw) THEN Fail
       ELSE With(h, Arr("Records", <<>>), ReadElements(LAMBDA q : DecodeRecord(raw, q), count))
=============================================================================
