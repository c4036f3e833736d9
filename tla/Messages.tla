------------------------------ MODULE Messages ------------------------------
(***************************************************************************)
(* The messages brokers exchange, each with the format its Encode writes   *)
(* and the one its Decode reads.                                           *)
(***************************************************************************)
EXTENDS Wire

(***************************************************************************)
(* Headers.                                                                *)
(***************************************************************************)

ApiKeyProduce == 0
ApiKeyFetch == 1
ApiKeyCreateTopics == 19
ApiKeyBrokerRegistration == 62
ApiKeyBrokerHeartbeat == 63

\* The rows of apiFlexibleVersions for the requests above.
FlexibleFrom ==
    (ApiKeyProduce :> 9) @@ (ApiKeyFetch :> 12) @@ (ApiKeyCreateTopics :> 5) @@
    (ApiKeyBrokerRegistration :> 0) @@ (ApiKeyBrokerHeartbeat :> 0)

IsFlexible(key, version) ==
    /\ key \in DOMAIN FlexibleFrom
    /\ version >= FlexibleFrom[key]

HeaderFields == <<F("ApiKey", "int16"), F("ApiVersion", "int16"),
                  F("CorrelationId", "int32"), F("ClientId", "nullable")>>

RequestHeaderEncode(h) ==
    Write(HeaderFields, h) \o
    IF IsFlexible(h.ApiKey, h.ApiVersion) THEN WriteEmptyTaggedFields ELSE <<>>

RequestHeaderDecode(b) ==
    LET r == Read(HeaderFields, b, 0)
        tags == ReadTaggedFields(b, r.p)
    IN IF Failed(r) THEN Fail
       ELSE IF ~IsFlexible(r.v.ApiKey, r.v.ApiVersion) THEN r
       ELSE IF Failed(tags) THEN Fail ELSE [r EXCEPT !.p = tags.p]

ResponseHeaderEncode(correlationId, key, version) ==
    WriteInt(correlationId, 4) \o
    IF IsFlexible(key, version) THEN WriteEmptyTaggedFields ELSE <<>>

ResponseHeaderDecode(b, key, version) ==
    LET r == ReadInt(b, 0, 4)
        tags == ReadTaggedFields(b, r.p)
    IN IF Failed(r) \/ ~IsFlexible(key, version) THEN r
       ELSE IF Failed(tags) THEN Fail ELSE [r EXCEPT !.p = tags.p]

\* The length of a payload goes before it.
WriteLength(payload) == WriteInt(Len(payload), 4)

(***************************************************************************)
(* Registration and heartbeats.                                            *)
(***************************************************************************)

BrokerRegistrationRequestEncode ==
    <<F("BrokerId", "int32"), F("ClusterId", "compact"), F("IncarnationId", "uuid"),
      Arr("Listeners", <<F("Name", "compact"), F("Host", "compact"), F("Port", "int32"),
                         F("SecurityProtocol", "int16"), Tags>>),
      Arr("Features", <<F("Name", "compact"), F("MinSupportedVersion", "int16"),
                        F("MaxSupportedVersion", "int16"), Tags>>),
      F("Rack", "compactNullable"), Tags>>

BrokerRegistrationRequestDecode ==
    <<F("BrokerId", "int32"), F("ClusterId", "compact"), F("IncarnationId", "uuid"),
      Arr("Listeners", <<F("Name", "compact"), F("Host", "compact"), F("Port", "int32"),
                         F("SecurityProtocol", "int16"), Tags>>),
      Arr("Features", <<F("Name", "compact"), F("MinSupportedVersion", "int16"),
                        F("MaxSupportedVersion", "int16"), Tags>>),
      F("Rack", "compactNullable"), Tags>>

BrokerRegistrationResponseEncode ==
    <<F("ThrottleTimeMs", "int32"), F("ErrorCode", "int16"), F("BrokerEpoch", "int64"), Tags>>

BrokerRegistrationResponseDecode ==
    <<F("ThrottleTimeMs", "int32"), F("ErrorCode", "int16"), F("BrokerEpoch", "int64"), Tags>>

BrokerHeartbeatRequestEncode ==
    <<F("BrokerId", "int32"), F("BrokerEpoch", "int64"), F("CurrentMetadataOffset", "int64"),
      F("WantFence", "bool"), F("WantShutDown", "bool"), Tags>>

BrokerHeartbeatRequestDecode ==
    <<F("BrokerId", "int32"), F("BrokerEpoch", "int64"), F("CurrentMetadataOffset", "int64"),
      F("WantFence", "bool"), F("WantShutDown", "bool"), Tags>>

BrokerHeartbeatResponseEncode ==
    <<F("ThrottleTimeMs", "int32"), F("ErrorCode", "int16"), F("IsCaughtUp", "bool"),
      F("IsFenced", "bool"), F("ShouldShutDown", "bool"), Tags>>

\* Mutant of BrokerHeartbeatResponseDecode: two flags change places.
BrokerHeartbeatResponseDecodeSwapped ==
    <<F("ThrottleTimeMs", "int32"), F("ErrorCode", "int16"), F("IsFenced", "bool"),
      F("IsCaughtUp", "bool"), F("ShouldShutDown", "bool"), Tags>>

BrokerHeartbeatResponseDecode ==
    <<F("ThrottleTimeMs", "int32"), F("ErrorCode", "int16"), F("IsCaughtUp", "bool"),
      F("IsFenced", "bool"), F("ShouldShutDown", "bool"), Tags>>

(***************************************************************************)
(* Fetch.                                                                  *)
(***************************************************************************)

ReplicaState == Struct("ReplicaState", <<F("ReplicaId", "int32"), F("ReplicaEpoch", "int64")>>)

ForgottenTopic == <<F("TopicId", "uuid"), Ints("Partitions"), Tags>>

FetchPartitionEncode ==
    <<F("Partition", "int32"), F("CurrentLeaderEpoch", "int32"), F("FetchOffset", "int64"),
      F("LastFetchedEpoch", "int32"), F("LogStartOffset", "int64"),
      F("PartitionMaxBytes", "int32"),
      Tagged(<<F("ReplicaDirectoryId", "uuid"), F("HighWatermark", "int64")>>)>>

FetchRequestEncode ==
    <<F("MaxWaitMs", "int32"), F("MinBytes", "int32"), F("MaxBytes", "int32"),
      F("IsolationLevel", "int8"), F("SessionId", "int32"), F("SessionEpoch", "int32"),
      Arr("Topics", <<F("TopicId", "uuid"), Arr("Partitions", FetchPartitionEncode), Tags>>),
      Arr("ForgottenTopics", ForgottenTopic), F("RackId", "compact"),
      Tagged(<<F("ClusterId", "compactNullable"), ReplicaState>>)>>

\* Mutant of FetchPartitionDecode: two offsets change places.
FetchPartitionDecodeSwapped ==
    <<F("Partition", "int32"), F("CurrentLeaderEpoch", "int32"), F("LogStartOffset", "int64"),
      F("LastFetchedEpoch", "int32"), F("FetchOffset", "int64"),
      F("PartitionMaxBytes", "int32"),
      Tagged(<<F("ReplicaDirectoryId", "uuid"), F("HighWatermark", "int64")>>)>>

FetchPartitionDecode ==
    <<F("Partition", "int32"), F("CurrentLeaderEpoch", "int32"), F("FetchOffset", "int64"),
      F("LastFetchedEpoch", "int32"), F("LogStartOffset", "int64"),
      F("PartitionMaxBytes", "int32"),
      Tagged(<<F("ReplicaDirectoryId", "uuid"), F("HighWatermark", "int64")>>)>>

FetchRequestDecode ==
    <<F("MaxWaitMs", "int32"), F("MinBytes", "int32"), F("MaxBytes", "int32"),
      F("IsolationLevel", "int8"), F("SessionId", "int32"), F("SessionEpoch", "int32"),
      Arr("Topics", <<F("TopicId", "uuid"), Arr("Partitions", FetchPartitionDecode), Tags>>),
      Arr("ForgottenTopics", ForgottenTopic), F("RackId", "compact"),
      Tagged(<<F("ClusterId", "compactNullable"), ReplicaState>>)>>

AbortedTransaction == <<F("ProducerId", "int64"), F("FirstOffset", "int64"), Tags>>

\* The fields a response says of a partition before its records.
PartitionFields ==
    <<F("PartitionIndex", "int32"), F("ErrorCode", "int16"), F("HighWatermark", "int64"),
      F("LastStableOffset", "int64"), F("LogStartOffset", "int64"),
      Arr("AbortedTransactions", AbortedTransaction), F("PreferredReadReplica", "int32")>>

EncodePartitionPreRecords(p, size) ==
    Write(PartitionFields, p) \o WriteUVarInt(IF size < 0 THEN 0 ELSE size + 1)

EncodePartitionPostRecords(p) ==
    WriteTagged(<<Struct("DivergingEpoch", <<F("Epoch", "int32"), F("EndOffset", "int64")>>),
                  Struct("CurrentLeader", <<F("LeaderId", "int32"), F("LeaderEpoch", "int32")>>),
                  Struct("SnapshotId", <<F("EndOffset", "int64"), F("Epoch", "int32")>>)>>, p)

\* The partition tags of a fetch answer, which handlers never set.
Untagged(resp) ==
    LET none == [DivergingEpoch |-> <<>>, CurrentLeader |-> <<>>, SnapshotId |-> <<>>]
    IN [resp EXCEPT !.Responses =
            [i \in DOMAIN @ |-> [@[i] EXCEPT !.Partitions = [j \in DOMAIN @ |-> @[j] @@ none]]]]

\* The pieces the handler writes, in memory or from the segment file. In the
\* footer, node endpoints are never set.
FetchResponseSegments(resp) ==
    LET partition(p) ==
            IF p.Records = Null
            THEN <<EncodePartitionPreRecords(p, -1), EncodePartitionPostRecords(p)>>
            ELSE <<EncodePartitionPreRecords(p, Len(p.Records)), p.Records,
                   EncodePartitionPostRecords(p)>>
        topic(t) ==
            <<t.TopicId, WriteCompactArrayLen(Len(t.Partitions))>> \o
            FlattenSeq([i \in DOMAIN t.Partitions |-> partition(t.Partitions[i])]) \o
            <<WriteEmptyTaggedFields>>
    IN <<Write(<<F("ThrottleTimeMs", "int32"), F("ErrorCode", "int16"),
                 F("SessionId", "int32")>>, resp),
         WriteCompactArrayLen(Len(resp.Responses))>> \o
       FlattenSeq([i \in DOMAIN resp.Responses |-> topic(resp.Responses[i])]) \o
       <<WriteEmptyTaggedFields>>

\* Mutant of FetchFrame: the header is not counted.
FetchFrameShort(header, resp) ==
    LET segs == FetchResponseSegments(resp)
        rhdr == ResponseHeaderEncode(header.CorrelationId, header.ApiKey, header.ApiVersion)
        totalPayload == FoldLeft(LAMBDA n, s : n + Len(s), 0, segs)
    IN WriteInt(totalPayload, 4) \o rhdr \o FlattenSeq(segs)

\* The handler adds up the sizes of the segments before it writes them.
FetchFrame(header, resp) ==
    LET segs == FetchResponseSegments(resp)
        rhdr == ResponseHeaderEncode(header.CorrelationId, header.ApiKey, header.ApiVersion)
        totalPayload == FoldLeft(LAMBDA n, s : n + Len(s), 0, segs)
    IN WriteInt(Len(rhdr) + totalPayload, 4) \o rhdr \o FlattenSeq(segs)

FetchResponseDecode ==
    <<F("ThrottleTimeMs", "int32"), F("ErrorCode", "int16"), F("SessionId", "int32"),
      Arr("Responses",
          <<F("TopicId", "uuid"),
            Arr("Partitions", PartitionFields \o <<F("Records", "records"), Tags>>),
            Tags>>),
      Tags>>

(***************************************************************************)
(* CreateTopics.                                                           *)
(***************************************************************************)

CreateTopicAssignment == <<F("PartitionIndex", "int32"), Ints("BrokerIds"), Tags>>

CreateTopicConfig == <<F("Name", "compact"), F("Value", "compactNullable"), Tags>>

CreateTopicDataEncode ==
    <<F("Name", "compact"), F("NumPartitions", "int32"), F("ReplicationFactor", "int16"),
      Arr("Assigments", CreateTopicAssignment), Arr("Configs", CreateTopicConfig), Tags>>

CreateTopicsRequestEncode ==
    <<Arr("Topics", CreateTopicDataEncode), F("TimeoutMs", "int32"),
      F("ValidateOnly", "bool"), Tags>>

CreateTopicDataDecode ==
    <<F("Name", "compact"), F("NumPartitions", "int32"), F("ReplicationFactor", "int16"),
      Arr("Assigments", CreateTopicAssignment), Arr("Configs", CreateTopicConfig), Tags>>

CreateTopicsRequestDecode ==
    <<Arr("Topics", CreateTopicDataDecode), F("TimeoutMs", "int32"),
      F("ValidateOnly", "bool"), Tags>>

CreateTopicConfigResponse ==
    <<F("Name", "compact"), F("Value", "compactNullable"), F("ReadOnly", "bool"),
      F("ConfigSource", "int8"), F("IsSensitive", "bool"),
      F("TopicConfigErrorCode", "int16"), Tags>>

CreateTopicResponseDataEncode ==
    <<F("Name", "compact"), F("TopicId", "uuid"), F("ErrorCode", "int16"),
      F("ErrorMessage", "compactNullable"), F("NumPartitions", "int32"),
      F("ReplicationFactor", "int16"), Arr("Configs", CreateTopicConfigResponse), Tags>>

CreateTopicsResponseEncode ==
    <<F("ThrottleTimeMs", "int32"), Arr("Topics", CreateTopicResponseDataEncode), Tags>>

CreateTopicResponseDataDecode ==
    <<F("Name", "compact"), F("TopicId", "uuid"), F("ErrorCode", "int16"),
      F("ErrorMessage", "compactNullable"), F("NumPartitions", "int32"),
      F("ReplicationFactor", "int16"), Arr("Configs", CreateTopicConfigResponse), Tags>>

CreateTopicsResponseDecode ==
    <<F("ThrottleTimeMs", "int32"), Arr("Topics", CreateTopicResponseDataDecode), Tags>>
=============================================================================
