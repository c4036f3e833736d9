------------------------------- MODULE Codec --------------------------------
(***************************************************************************)
(* What the decoders make of what the encoders write, on a few messages of *)
(* each kind. The values take the cases the formats tell apart: absent,    *)
(* empty and present fields, arrays of none, one and two elements, numbers *)
(* at the ends of their ranges, and strings whose length takes two bytes.  *)
(* It is looked at once for a connection, before its first call.           *)
(***************************************************************************)
EXTENDS Connection, RecordBatches

Text(n) == [i \in 1 .. n |-> 97 + (i % 26)]
Id(n) == [i \in 1 .. 16 |-> (i * n) % 256]
Numbers == {-2147483647, -1, 0, 1, 255, 256, 2147483647}

(***************************************************************************)
(* Messages.                                                               *)
(***************************************************************************)

HeaderValues ==
    [ApiKey : {ApiKeyProduce, ApiKeyFetch, ApiKeyBrokerHeartbeat}, ApiVersion : {0, 12, 18},
     CorrelationId : {0, 2147483647}, ClientId : {Null, Text(1), Text(200)}]

RegistrationValues ==
    LET listener == [Name |-> Text(9), Host |-> <<>>, Port |-> 9092, SecurityProtocol |-> 0]
        feature == [Name |-> Text(127), MinSupportedVersion |-> -1, MaxSupportedVersion |-> 300]
    IN [BrokerId : {2}, ClusterId : {<<>>, Text(3)}, IncarnationId : {Id(7)},
        Listeners : {<<>>, <<listener>>, <<listener, [listener EXCEPT !.Host = Text(128)]>>},
        Features : {<<>>, <<feature>>}, Rack : {Null, <<>>, Text(2)}]

RegistrationAnswers ==
    [ThrottleTimeMs : {0}, ErrorCode : {0, -1, 41}, BrokerEpoch : Numbers]

HeartbeatValues ==
    [BrokerId : {2}, BrokerEpoch : Numbers, CurrentMetadataOffset : {0, 300},
     WantFence : BOOLEAN, WantShutDown : BOOLEAN]

HeartbeatAnswers ==
    [ThrottleTimeMs : {0}, ErrorCode : {0, 77}, IsCaughtUp : BOOLEAN, IsFenced : BOOLEAN,
     ShouldShutDown : BOOLEAN]

FetchValues ==
    LET partition == [Partition |-> 0, CurrentLeaderEpoch |-> -1, FetchOffset |-> 300,
                      LastFetchedEpoch |-> -1, LogStartOffset |-> 0, PartitionMaxBytes |-> 1048576,
                      ReplicaDirectoryId |-> <<>>, HighWatermark |-> <<>>]
        tagged == [partition EXCEPT !.ReplicaDirectoryId = <<Id(3)>>, !.HighWatermark = <<0>>]
        topic(s) == [TopicId |-> Id(5), Partitions |-> s]
    IN [MaxWaitMs : {500}, MinBytes : {1}, MaxBytes : {52428800}, IsolationLevel : {0, 1},
        SessionId : {0}, SessionEpoch : {-1},
        Topics : {<<>>, <<topic(<<partition>>)>>, <<topic(<<>>), topic(<<tagged, partition>>)>>},
        ForgottenTopics : {<<>>, <<[TopicId |-> Id(1), Partitions |-> <<0, 7>>]>>},
        RackId : {<<>>, Text(127)}, ClusterId : {<<>>, <<Text(2)>>},
        ReplicaState : {<<>>, <<[ReplicaId |-> 2, ReplicaEpoch |-> -1]>>}]

\* Answers to a fetch, as the follower sees them.
FetchAnswers ==
    LET partition(aborted, records) ==
            [PartitionIndex |-> 1, ErrorCode |-> 0, HighWatermark |-> 9, LastStableOffset |-> 9,
             LogStartOffset |-> 0, AbortedTransactions |-> aborted,
             PreferredReadReplica |-> -1, Records |-> records]
        some == <<[ProducerId |-> 4, FirstOffset |-> 2]>>
        topic(s) == [TopicId |-> Id(5), Partitions |-> s]
    IN [ThrottleTimeMs : {0}, ErrorCode : {0}, SessionId : {0, -1},
        Responses : {<<>>, <<topic(<<>>)>>} \cup
            {<<topic(<<partition(<<>>, r), partition(some, s)>>)>> :
                r, s \in {Null, <<>>, Text(126), Text(127)}}]

CreateTopicsValues ==
    LET config(v) == [Name |-> Text(4), Value |-> v]
        data(a, c) == [Name |-> Text(3), NumPartitions |-> 3, ReplicationFactor |-> -1,
                       Assigments |-> a, Configs |-> c]
    IN [Topics : {<<>>} \cup
            {<<data(a, c)>> : a \in {<<>>, <<[PartitionIndex |-> 0, BrokerIds |-> <<1, 2>>]>>},
                              c \in {<<>>, <<config(Null), config(<<>>), config(Text(1))>>}},
        TimeoutMs : {30000}, ValidateOnly : BOOLEAN]

CreateTopicsAnswers ==
    LET config == [Name |-> Text(4), Value |-> Null, ReadOnly |-> FALSE, ConfigSource |-> 5,
                   IsSensitive |-> TRUE, TopicConfigErrorCode |-> 0]
        data(e, c) == [Name |-> Text(3), TopicId |-> Id(9), ErrorCode |-> 36, ErrorMessage |-> e,
                       NumPartitions |-> 1, ReplicationFactor |-> 2, Configs |-> c]
    IN [ThrottleTimeMs : {0},
        Topics : {<<>>} \cup {<<data(e, c), data(Null, <<>>)>> :
                                 e \in {Null, <<>>, Text(130)}, c \in {<<>>, <<config>>}}]

FetchBody(resp) == FlattenSeq(FetchResponseSegments(Untagged(resp)))

\* Messages with the formats of their encoders and decoders.
Sent(values, encode, decode) ==
    {[v |-> v, encode |-> encode, decode |-> decode] : v \in values}

SentMessages ==
    Sent(RegistrationValues, BrokerRegistrationRequestEncode, BrokerRegistrationRequestDecode)
    \cup
    Sent(RegistrationAnswers, BrokerRegistrationResponseEncode, BrokerRegistrationResponseDecode)
    \cup
    Sent(HeartbeatValues, BrokerHeartbeatRequestEncode, BrokerHeartbeatRequestDecode) \cup
    Sent(HeartbeatAnswers, BrokerHeartbeatResponseEncode, BrokerHeartbeatResponseDecode) \cup
    Sent(FetchValues, FetchRequestEncode, FetchRequestDecode) \cup
    Sent(CreateTopicsValues, CreateTopicsRequestEncode, CreateTopicsRequestDecode) \cup
    Sent(CreateTopicsAnswers, CreateTopicsResponseEncode, CreateTopicsResponseDecode)

\* Messages with their bytes.
Encoded ==
    {[v |-> m.v, b |-> Write(m.encode, m.v), decode |-> m.decode] : m \in SentMessages} \cup
    {[v |-> a, b |-> FetchBody(a), decode |-> FetchResponseDecode] : a \in FetchAnswers}

\* The longest message that is cut at every byte.
MaxCut == 200

(***************************************************************************)
(* Records and batches.                                                    *)
(***************************************************************************)

BrokerRecords ==
    [BrokerId : {1}, Epoch : Numbers, Host : {<<>>, Text(9), Text(300)}, Port : {9092}]

TopicRecords ==
    [TopicId : {Id(5)}, NumPartitions : {1, 3}, Name : {<<>>, Text(5)},
     MinInsyncReplicas : {1, 2}]

PartitionRecords ==
    [TopicId : {Id(5)}, PartitionId : {0, 300}, Leader : {-1, 2}, LeaderEpoch : {0, 1},
     Replicas : {<<>>, <<1, 2, 3>>}, ISR : {<<>>, <<1>>, <<1, 2>>}]

ProducerIdsRecords == [BrokerId : {1}, BrokerEpoch : {0, 7}, NextProducerId : Numbers]

\* Records of every type with their bytes, as the metadata log gets them.
EncodedRecords ==
    {[v |-> r, b |-> BrokerRecordEncode(r)] : r \in BrokerRecords} \cup
    {[v |-> r, b |-> TopicRecordEncode(r)] : r \in TopicRecords} \cup
    {[v |-> r, b |-> PartitionRecordEncode(r)] : r \in PartitionRecords} \cup
    {[v |-> r, b |-> ProducerIdsRecordEncode(r)] : r \in ProducerIdsRecords}

\* A part of a log: batches of one record each, the first at offset 4, with the
\* values of short and of long records.
LogValues == <<<<7>>, Text(300), <<0, 1>>>>
LogBatches ==
    [i \in DOMAIN LogValues |-> PatchBaseOffset(EncodeAsRecordBatch(LogValues[i], 1000), 3 + i)]

\* How many batches the first n bytes of the log hold to their end.
WholeBatches(batches, n) ==
    LET end(k) == Len(FlattenSeq(SubSeq(batches, 1, k)))
    IN CHOOSE k \in 0 .. Len(batches) :
        end(k) <= n /\ (k < Len(batches) => end(k + 1) > n)

(***************************************************************************)
(* Properties.                                                             *)
(***************************************************************************)

\* Nothing was sent on the connection yet.
Unused == calls = 0 /\ dials = 1 /\ open

\* A number is read back from the bytes it was written to, at the ends of every
\* number of bytes, and UVarIntSize, which states the size of a tag before the tag
\* is written, is the number of bytes.
NumbersUnderstood ==
    \A x \in {0, 1, 127, 128, 16383, 16384, 2097151, 2097152, 268435455} :
        LET b == WriteUVarInt(x)
            z == WriteVarInt(x)
            m == WriteVarInt(-x - 1)
        IN /\ ReadUVarInt(b, 0) = [v |-> x, p |-> Len(b)]
           /\ UVarIntSize(x) = Len(b)
           /\ ReadVarInt(z, 0) = [v |-> x, p |-> Len(z)]
           /\ ReadVarInt(m, 0) = [v |-> -x - 1, p |-> Len(m)]

\* A header comes out of RequestHeaderDecode as it went into RequestHeaderEncode.
HeadersUnderstood ==
    \A m \in {[v |-> v, b |-> RequestHeaderEncode(v)] : v \in HeaderValues} :
        RequestHeaderDecode(m.b) = [v |-> m.v, p |-> Len(m.b)]

\* Every message comes out of its decoder as it went into its encoder, with nothing
\* left over.
RoundTrips ==
    \A m \in Encoded : Read(m.decode, m.b, 0) = [v |-> m.v, p |-> Len(m.b)]

\* A message that ends early is refused, wherever it ends: the length a frame
\* states is not compared with what its message takes.
PartsRefused ==
    \A m \in {e \in Encoded : Len(e.b) <= MaxCut} :
        \A part \in {SubSeq(m.b, 1, n) : n \in 0 .. Len(m.b) - 1} :
            Failed(Read(m.decode, part, 0))

\* What one broker writes, the other reads: numbers, headers, registration,
\* heartbeats, fetch and topic creation, with nothing left over and nothing taken
\* that is not all there. The answer to a fetch is written in pieces by the handler
\* and read in one go by the follower.
MessagesUnderstood ==
    Unused => NumbersUnderstood /\ HeadersUnderstood /\ RoundTrips /\ PartsRefused

\* A metadata record is read back by Decode as it was encoded, and the batch that
\* carries it gives its bytes back.
RecordsRead ==
    \A m \in EncodedRecords :
        /\ DecodeMetadataRecord(m.b) = [v |-> m.v, p |-> Len(m.b) - 2]
        /\ DecodeRecordValues(EncodeAsRecordBatch(m.b, 1000)) = <<m.b>>

\* A metadata record is read back by ApplyMetadataRecord's Decode as it was
\* appended, through the batch that carries it.
MetadataUnderstood == Unused /\ kind = "metadata" => RecordsRead

\* The readers agree on a log of whole batches: the fetchers count as many records
\* as they find values, and the produce handler finds the first batch's record.
ReadersAgree(batches) ==
    \A k \in DOMAIN batches :
        \A part \in {FlattenSeq(SubSeq(batches, k, Len(batches)))} :
            /\ CountRecords(part) = Len(batches) + 1 - k
            /\ \E batch \in {DecodeRecordBatch(part)} :
                /\ batch.v.BaseOffset = 3 + k
                /\ batch.v.Records[1].Value = LogValues[k]
                /\ batch.p = Len(batches[k])

\* Of any beginning of a log the values, the headers and the last offset are those
\* of the whole batches.
BeginningsAgree(batches) ==
    \A bytes \in {FlattenSeq(batches)} : \A n \in 0 .. Len(bytes) :
        \A part \in {SubSeq(bytes, 1, n)}, k \in {WholeBatches(batches, n)} :
            /\ DecodeRecordValues(part) = SubSeq(LogValues, 1, k)
            /\ ScanLastOffset(part, 4) = 4 + k
            /\ BatchHeaders(part) =
                 [i \in 1 .. k |-> [BaseOffset |-> 3 + i, LastOffsetDelta |-> 0,
                                    ProducerId |-> -1, ProducerEpoch |-> -1,
                                    BaseSequence |-> -1]]

BatchesRead ==
    \A batches \in {LogBatches} : ReadersAgree(batches) /\ BeginningsAgree(batches)

\* Of any beginning of a log, a fetch answer or a file that was cut, the readers
\* of batches take the whole batches and nothing of the rest: the values the
\* metadata fetcher applies, the headers a recovery replays and the offset a
\* segment continues at belong to the same batches. On whole batches
\* the counter of the replica fetcher and the produce handler agree with them.
WholeBatchesTaken == Unused /\ kind # "registrar" => BatchesRead
=============================================================================
