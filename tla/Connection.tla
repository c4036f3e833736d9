----------------------------- MODULE Connection -----------------------------
(***************************************************************************)
(* One TCP connection from a broker to another: the BrokerClient that the  *)
(* replica fetchers of one leader share, the one of the metadata fetcher,  *)
(* or the connection of the registrar; and the goroutine that serves it    *)
(* (Conn.handle). Requests and answers are bytes, and nothing marks where  *)
(* one ends but the length before it.                                      *)
(*                                                                         *)
(* The connection may break, and what is under way is then cut anywhere.   *)
(* A handler that answers a fetch may fail half-way, when the segment file *)
(* cannot be read: the connection stays open. What handlers answer is any  *)
(* of a few values; what the answers mean is in other modules.             *)
(***************************************************************************)
EXTENDS Messages

CONSTANTS
    Fetchers,       \* the replica fetchers that share a client: topic numbers
    Offsets,        \* the offsets that are fetched
    RecordSizes,    \* how many bytes of records an answer has; -1: none
    MaxCalls,       \* how many requests are made
    MaxDials        \* how many connections are made

ASSUME ConnectionAssumption ==
    /\ Fetchers \subseteq 1 .. 255 /\ Offsets \subseteq Nat
    /\ RecordSizes \subseteq Nat \cup {-1}
    /\ MaxCalls \in Nat /\ MaxDials \in Nat

VARIABLES
    kind,           \* whose connection this is
    pc,             \* where each caller is in its call
    asked,          \* the request of each caller's call, with its number
    lock,           \* the caller that holds BrokerClient.mu, or 0
    nextId,         \* nextCorrelationId of the client, correlationId of the registrar
    toServer,       \* bytes sent and not read yet, and those of the answers
    toClient,
    open,           \* the connection is not broken
    got,            \* what each caller's last call gave: <<>> is an error
    sent,           \* the requests written to this connection, in order
    served,         \* the requests handled and the answers given, in order
    cut,            \* a handler failed half-way through an answer
    registered,     \* the registrar has an epoch
    calls,
    dials

vars == <<kind, pc, asked, lock, nextId, toServer, toClient, open, got, sent, served,
          cut, registered, calls, dials>>

Kinds == {"replica", "metadata", "registrar"}
Callers == IF kind = "replica" THEN Fetchers ELSE {1}

Uuid(n) == [i \in 1 .. 16 |-> IF i = 16 THEN n ELSE 0]
ClientId == [i \in 1 .. 13 |-> 98]

(***************************************************************************)
(* The requests, each with the version and the key of its header.          *)
(***************************************************************************)

\* What ReplicaFetcher.Run asks for.
ReplicaFetch(topic, offset) ==
    [MaxWaitMs |-> 500, MinBytes |-> 1, MaxBytes |-> 52428800, IsolationLevel |-> 0,
     SessionId |-> 0, SessionEpoch |-> 0,
     Topics |-> <<[TopicId |-> Uuid(topic),
                   Partitions |-> <<[Partition |-> topic, CurrentLeaderEpoch |-> -1,
                                     FetchOffset |-> offset, LastFetchedEpoch |-> -1,
                                     LogStartOffset |-> 0, PartitionMaxBytes |-> 10485760,
                                     ReplicaDirectoryId |-> <<>>, HighWatermark |-> <<>>]>>]>>,
     ForgottenTopics |-> <<>>, RackId |-> <<>>, ClusterId |-> <<>>,
     ReplicaState |-> <<[ReplicaId |-> 2, ReplicaEpoch |-> -1]>>]

\* What MetadataFetcher.fetchLoop asks for.
MetadataFetch(offset) ==
    [ReplicaFetch(1, offset) EXCEPT !.MaxBytes = 10485760, !.SessionEpoch = -1,
                                    !.Topics[1].Partitions[1].Partition = 0]

\* What the registrar sends.
Registration ==
    [BrokerId |-> 2, ClusterId |-> <<99>>, IncarnationId |-> Uuid(7),
     Listeners |-> <<[Name |-> <<80, 76>>, Host |-> <<104>>, Port |-> 9092,
                      SecurityProtocol |-> 0]>>,
     Features |-> <<>>, Rack |-> Null]

Heartbeat(offset) ==
    [BrokerId |-> 2, BrokerEpoch |-> 1, CurrentMetadataOffset |-> offset,
     WantFence |-> FALSE, WantShutDown |-> FALSE]

Fetch(body) == [key |-> ApiKeyFetch, version |-> 18, body |-> body]
Register(body) == [key |-> ApiKeyBrokerRegistration, version |-> 0, body |-> body]
Beat(body) == [key |-> ApiKeyBrokerHeartbeat, version |-> 0, body |-> body]

\* What caller c may ask for now.
Requests(c) ==
    CASE kind = "replica" -> {Fetch(ReplicaFetch(c, o)) : o \in Offsets}
      [] kind = "metadata" -> {Fetch(MetadataFetch(o)) : o \in Offsets}
      [] kind = "registrar" -> IF registered THEN {Beat(Heartbeat(o)) : o \in Offsets}
                               ELSE {Register(Registration)}

\* The payload of a request: its header, then its body.
Payload(r, id) ==
    RequestHeaderEncode([ApiKey |-> r.key, ApiVersion |-> r.version, CorrelationId |-> id,
                         ClientId |-> ClientId]) \o
    CASE r.key = ApiKeyFetch -> Write(FetchRequestEncode, r.body)
      [] r.key = ApiKeyBrokerRegistration -> Write(BrokerRegistrationRequestEncode, r.body)
      [] r.key = ApiKeyBrokerHeartbeat -> Write(BrokerHeartbeatRequestEncode, r.body)

\* The body of the payload of a request, after its header.
RequestBody(key, b, p) ==
    CASE key = ApiKeyFetch -> Read(FetchRequestDecode, b, p)
      [] key = ApiKeyBrokerRegistration -> Read(BrokerRegistrationRequestDecode, b, p)
      [] key = ApiKeyBrokerHeartbeat -> Read(BrokerHeartbeatRequestDecode, b, p)
      [] OTHER -> Fail

(***************************************************************************)
(* The answers.                                                            *)
(***************************************************************************)

\* HandleFetchApiKeys: an entry for every partition asked for, in order. The
\* records of a topic are its number, again and again.
FetchAnswer(req, size) ==
    LET partition(t, p) ==
            [PartitionIndex |-> p.Partition, ErrorCode |-> 0, HighWatermark |-> p.FetchOffset,
             LastStableOffset |-> p.FetchOffset, LogStartOffset |-> 0,
             AbortedTransactions |-> <<>>, PreferredReadReplica |-> -1,
             Records |-> IF size < 0 THEN Null ELSE [i \in 1 .. size |-> t.TopicId[16]]]
    IN [ThrottleTimeMs |-> 0, ErrorCode |-> 0, SessionId |-> req.SessionId,
        Responses |-> [i \in DOMAIN req.Topics |->
            [TopicId |-> req.Topics[i].TopicId,
             Partitions |-> [j \in DOMAIN req.Topics[i].Partitions |->
                                partition(req.Topics[i], req.Topics[i].Partitions[j])]]]]

Answers(key, req) ==
    CASE key = ApiKeyFetch -> {FetchAnswer(req, size) : size \in RecordSizes}
      [] key = ApiKeyBrokerRegistration ->
            {[ThrottleTimeMs |-> 0, ErrorCode |-> 0, BrokerEpoch |-> 1],
             [ThrottleTimeMs |-> 0, ErrorCode |-> 41, BrokerEpoch |-> 0]}
      [] key = ApiKeyBrokerHeartbeat ->
            {[ThrottleTimeMs |-> 0, ErrorCode |-> 0, IsCaughtUp |-> up, IsFenced |-> ~up,
              ShouldShutDown |-> FALSE] : up \in BOOLEAN}

\* WriteFraming with a header that has only the number of the request.
WriteFraming(id, body) ==
    LET payload == ResponseHeaderEncode(id, 0, 0) \o body IN WriteLength(payload) \o payload

AnswerFrame(header, resp) ==
    CASE header.ApiKey = ApiKeyFetch -> FetchFrame(header, Untagged(resp))
      [] header.ApiKey = ApiKeyBrokerRegistration ->
            WriteFraming(header.CorrelationId, Write(BrokerRegistrationResponseEncode, resp))
      [] header.ApiKey = ApiKeyBrokerHeartbeat ->
            WriteFraming(header.CorrelationId, Write(BrokerHeartbeatResponseEncode, resp))

\* What the caller reads of an answer, whose header it takes for flexible only
\* when it asked for a fetch: the number of the request, then the response.
AnswerBody(key, b, h) ==
    CASE Failed(h) -> Fail
      [] key = ApiKeyFetch -> Read(FetchResponseDecode, b, h.p)
      [] key = ApiKeyBrokerRegistration -> Read(BrokerRegistrationResponseDecode, b, h.p)
      [] key = ApiKeyBrokerHeartbeat -> Read(BrokerHeartbeatResponseDecode, b, h.p)

AnswerHeader(key, b) ==
    IF key = ApiKeyFetch THEN ResponseHeaderDecode(b, ApiKeyFetch, 18)
    ELSE ResponseHeaderDecode(b, 0, 0)

(***************************************************************************)
(* ReadFraming: four bytes, and as many as they say.                       *)
(***************************************************************************)

FrameLength(stream) == ReadInt(stream, 0, 4)
FrameReady(stream) ==
    /\ ~Failed(FrameLength(stream))
    /\ 4 + FrameLength(stream).v <= Len(stream)
FramePayload(stream) == SubSeq(stream, 5, 4 + FrameLength(stream).v)
AfterFrame(stream) == SubSeq(stream, 5 + FrameLength(stream).v, Len(stream))

(***************************************************************************)
(* The caller: BrokerClient.Fetch and BrokerRegistrar.sendRequest.         *)
(***************************************************************************)

Init ==
    /\ kind \in Kinds
    /\ pc = [c \in Callers |-> "idle"]
    /\ asked = [c \in Callers |-> <<>>]
    /\ lock = 0
    /\ nextId = IF kind = "registrar" THEN 0 ELSE 1
    /\ toServer = <<>> /\ toClient = <<>> /\ open = TRUE
    /\ got = [c \in Callers |-> <<>>]
    /\ sent = <<>> /\ served = <<>>
    /\ cut = FALSE
    /\ registered = FALSE
    /\ calls = 0 /\ dials = 1

\* Mutant of Call: the caller does not wait for the mutex.
CallUnlocked(c) ==
    /\ pc[c] = "idle" /\ calls < MaxCalls
    /\ \E r \in Requests(c) :
        asked' = [asked EXCEPT ![c] = <<[id |-> nextId, req |-> r]>>]
    /\ lock' = c
    /\ pc' = [pc EXCEPT ![c] = "length"]
    /\ nextId' = IF kind = "registrar" THEN nextId + 1 ELSE nextId
    /\ got' = [got EXCEPT ![c] = <<>>]
    /\ calls' = calls + 1
    /\ UNCHANGED <<kind, toServer, toClient, open, sent, served, cut, registered, dials>>

\* The caller takes the mutex and encodes its request. The registrar counts its
\* requests first, and has no mutex: it makes one call at a time.
Call(c) ==
    LET id == IF kind = "registrar" THEN nextId + 1 ELSE nextId
    IN /\ pc[c] = "idle" /\ lock = 0 /\ calls < MaxCalls
       /\ \E r \in Requests(c) :
            asked' = [asked EXCEPT ![c] = <<[id |-> id, req |-> r]>>]
       /\ lock' = c
       /\ pc' = [pc EXCEPT ![c] = "length"]
       /\ nextId' = id
       /\ got' = [got EXCEPT ![c] = <<>>]
       /\ calls' = calls + 1
       /\ UNCHANGED <<kind, toServer, toClient, open, sent, served, cut, registered, dials>>

\* The call ends with an error: the mutex is released. The fetcher of metadata
\* gives the connection up, and so does the registrar before it is registered.
Error(c) ==
    /\ pc' = [pc EXCEPT ![c] = "idle"]
    /\ lock' = 0
    /\ open' = (open /\ (kind = "replica" \/ registered))

\* The first write, of the length.
SendLength(c) ==
    /\ pc[c] = "length"
    /\ \/ /\ open
          /\ toServer' = toServer \o WriteLength(Payload(asked[c][1].req, asked[c][1].id))
          /\ pc' = [pc EXCEPT ![c] = "payload"]
          /\ UNCHANGED <<lock, open>>
       \/ ~open /\ Error(c) /\ UNCHANGED toServer
    /\ UNCHANGED <<kind, asked, nextId, toClient, got, sent, served, cut, registered, calls,
                   dials>>

\* The second write, of the payload; the client then counts the request.
SendPayload(c) ==
    /\ pc[c] = "payload"
    /\ \/ /\ open
          /\ toServer' = toServer \o Payload(asked[c][1].req, asked[c][1].id)
          /\ pc' = [pc EXCEPT ![c] = "wait"]
          /\ sent' = Append(sent, asked[c][1])
          /\ nextId' = IF kind = "registrar" THEN nextId ELSE nextId + 1
          /\ UNCHANGED <<lock, open>>
       \/ ~open /\ Error(c) /\ UNCHANGED <<toServer, sent, nextId>>
    /\ UNCHANGED <<kind, asked, toClient, got, served, cut, registered, calls, dials>>

\* The call of c ends with header h and response resp. An answer that cannot be
\* decoded is an error, and so is a registration that is refused.
Answered(c, key, h, resp) ==
    IF Failed(resp) \/ (key = ApiKeyBrokerRegistration /\ resp.v.ErrorCode # 0)
    THEN Error(c) /\ UNCHANGED <<got, registered>>
    ELSE /\ got' = [got EXCEPT ![c] = <<[id |-> h.v, resp |-> resp.v]>>]
         /\ registered' = (registered \/ key = ApiKeyBrokerRegistration)
         /\ pc' = [pc EXCEPT ![c] = "idle"]
         /\ lock' = 0
         /\ UNCHANGED open

\* The answer arrives: whether it answers this request is not looked at.
Receive(c) ==
    LET answered(key, b, h) == Answered(c, key, h, AnswerBody(key, b, h))
        read(key, b) == answered(key, b, AnswerHeader(key, b))
    IN /\ pc[c] = "wait" /\ FrameReady(toClient)
       /\ toClient' = AfterFrame(toClient)
       /\ read(asked[c][1].req.key, FramePayload(toClient))
       /\ UNCHANGED <<kind, asked, nextId, toServer, sent, served, cut, calls, dials>>

\* The connection ends before the answer does.
ReceiveFails(c) ==
    /\ pc[c] = "wait" /\ ~open /\ ~FrameReady(toClient)
    /\ Error(c)
    /\ UNCHANGED <<kind, asked, nextId, toServer, toClient, got, sent, served, cut, registered,
                   calls, dials>>

\* After an error, the metadata fetcher makes a new client, and the registrar a new
\* connection until it is registered; replica fetchers keep theirs.
Redial ==
    /\ ~open /\ dials < MaxDials /\ lock = 0
    /\ asked[1] # <<>> /\ got[1] = <<>>
    /\ kind # "replica" /\ ~registered
    /\ open' = TRUE
    /\ dials' = dials + 1
    /\ toServer' = <<>> /\ toClient' = <<>>
    /\ nextId' = IF kind = "registrar" THEN nextId ELSE 1
    /\ sent' = <<>> /\ served' = <<>>
    /\ cut' = FALSE
    /\ UNCHANGED <<kind, pc, asked, lock, got, registered, calls>>

(***************************************************************************)
(* The server: Conn.handle reads a request, and its handler writes the     *)
(* answer before the next one is read.                                     *)
(***************************************************************************)

Handled(h, req, resp) ==
    [id |-> h.CorrelationId, resp |-> resp,
     req |-> [key |-> h.ApiKey, version |-> h.ApiVersion, body |-> req]]

\* HandleRequest, for the header and the body of the request. A body that cannot be
\* decoded, or a key that is not known, has no answer.
HandleRequest(h, req) ==
    IF Failed(req) THEN UNCHANGED <<toClient, served>>
    ELSE \E resp \in Answers(h.ApiKey, req.v) :
         /\ toClient' = IF open THEN toClient \o AnswerFrame(h, resp) ELSE toClient
         /\ served' = Append(served, Handled(h, req.v, resp))

\* A header that cannot be decoded, or an empty frame, closes the connection.
Serve ==
    LET handle(b, h) ==
            IF Failed(h) THEN open' = FALSE /\ UNCHANGED <<toClient, served>>
            ELSE HandleRequest(h.v, RequestBody(h.v.ApiKey, b, h.p)) /\ UNCHANGED open
        read(b) == handle(b, RequestHeaderDecode(b))
    IN /\ FrameReady(toServer)
       /\ toServer' = AfterFrame(toServer)
       /\ read(FramePayload(toServer))
       /\ UNCHANGED <<kind, pc, asked, lock, nextId, got, sent, cut, registered, calls, dials>>

\* The part of a frame with the given last segments that goes before them.
Before(frame, last) ==
    SubSeq(frame, 1, Len(frame) - FoldLeft(LAMBDA n, s : n + Len(s), 0, last))

\* The handler of a fetch fails after it wrote a part of the answer: the file of
\* the segment, the sixth of the pieces, cannot be read.
ServeCut ==
    LET handle(h, req) ==
            /\ ~Failed(req)
            /\ \E size \in RecordSizes \ {-1} :
                LET resp == FetchAnswer(req.v, size) IN
                /\ toClient' = toClient \o
                       Before(FetchFrame(h, Untagged(resp)),
                              SubSeq(FetchResponseSegments(Untagged(resp)), 6, 9))
                /\ served' = Append(served, Handled(h, req.v, resp))
        read(b, h) == ~Failed(h) /\ h.v.ApiKey = ApiKeyFetch
                      /\ handle(h.v, RequestBody(h.v.ApiKey, b, h.p))
    IN /\ FrameReady(toServer) /\ open
       /\ toServer' = AfterFrame(toServer)
       /\ read(FramePayload(toServer), RequestHeaderDecode(FramePayload(toServer)))
       /\ cut' = TRUE
       /\ UNCHANGED <<kind, pc, asked, lock, nextId, open, got, sent, registered, calls, dials>>

\* Where a stream may be cut: nothing arrives, a part of the length, the length
\* alone, a part of the payload, all but a byte, or everything.
Cuts(stream) == {0, 3, 4, 5, Len(stream) - 1, Len(stream)} \cap (0 .. Len(stream))

\* The connection breaks; of what is under way, only a beginning arrives.
Break ==
    /\ open
    /\ open' = FALSE
    /\ \E i \in Cuts(toServer) : toServer' = SubSeq(toServer, 1, i)
    /\ \E i \in Cuts(toClient) : toClient' = SubSeq(toClient, 1, i)
    /\ UNCHANGED <<kind, pc, asked, lock, nextId, got, sent, served, cut, registered, calls,
                   dials>>

Next ==
    \/ \E c \in Callers : \/ Call(c) \/ SendLength(c) \/ SendPayload(c)
                          \/ Receive(c) \/ ReceiveFails(c)
    \/ Redial \/ Serve \/ ServeCut \/ Break

Spec == Init /\ [][Next]_vars

(***************************************************************************)
(* Properties.                                                             *)
(***************************************************************************)

\* The types of the variables.
TypeOK ==
    /\ kind \in Kinds
    /\ pc \in [Callers -> {"idle", "length", "payload", "wait"}]
    /\ lock \in Callers \cup {0}
    /\ nextId \in Nat
    /\ toServer \in Seq(0 .. 255) /\ toClient \in Seq(0 .. 255)
    /\ open \in BOOLEAN /\ cut \in BOOLEAN /\ registered \in BOOLEAN
    /\ calls \in 0 .. MaxCalls /\ dials \in 1 .. MaxDials

\* A call that returns an answer returns the one the server gave to that call's
\* own request, unchanged and with its own number, though Fetch and sendRequest
\* compare no correlation id and several fetchers share a connection.
OwnAnswer ==
    \A c \in Callers : got[c] # <<>> =>
        \E i \in DOMAIN served :
            served[i] = [id |-> asked[c][1].id, req |-> asked[c][1].req,
                         resp |-> got[c][1].resp]
            /\ got[c][1].id = asked[c][1].id

\* What the server handles on a connection is what was sent there, in order and
\* unchanged: no request is lost between two others, handled twice or taken for
\* another one, whatever was cut when the connection broke.
HandledAsSent ==
    IsPrefix([i \in DOMAIN served |-> [id |-> served[i].id, req |-> served[i].req]], sent)

\* No call waits for what will not come: while one waits on an open connection,
\* its whole request is there to be handled or its whole answer to be read, and
\* nothing else is. Only a handler that failed half-way through an answer leaves
\* its caller waiting, and everyone who wants the mutex with it.
NoCallHangs ==
    \A c \in Callers : (pc[c] = "wait" /\ open /\ ~cut) =>
        \/ FrameReady(toServer) /\ AfterFrame(toServer) = <<>> /\ toClient = <<>>
        \/ FrameReady(toClient) /\ AfterFrame(toClient) = <<>> /\ toServer = <<>>
=============================================================================
