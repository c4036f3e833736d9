---------------------------- MODULE ClusterProofs ----------------------------
(***************************************************************************)
(* Heartbeats are not stale in a cluster of any size, with any number of   *)
(* registrations, lost answers, broken connections and restarts.           *)
(***************************************************************************)
EXTENDS Cluster, TLAPS

(***************************************************************************)
(* Each step of Membership keeps heartbeats from being stale.              *)
(***************************************************************************)

\* The variables of Membership have the shape MemberTypeOK asks for; offsets,
\* which the controller only stores, are left open.
MemberShape ==
    /\ registry = [b \in Brokers |-> [epoch |-> registry[b].epoch,
                                      offset |-> registry[b].offset]]
    /\ \A b \in Brokers : registry[b].epoch \in 1 .. MaxEpoch
    /\ epoch \in [Others -> 0 .. MaxEpoch]
    /\ session \in [Others -> {"dialing", "open", "broken"}]

MemberInv == MemberShape /\ HeartbeatsAccepted

LEMMA MemberInitInv == MemberInit => MemberInv
  BY MembershipAssumption
     DEF MemberInit, NewRegistry, MemberInv, MemberShape, HeartbeatsAccepted,
         Others

LEMMA RegisterInv ==
    ASSUME MemberInv, NEW b \in Others, Register(b)
    PROVE  MemberInv'
  <1>0. b \in Brokers /\ Others \subseteq Brokers /\ MaxEpoch \in Nat
    BY MembershipAssumption DEF Others
  <1>1. /\ registry' = [registry EXCEPT ![b] = [epoch |-> registry[b].epoch + 1,
                                                offset |-> 0]]
        /\ registry[b].epoch \in 1 .. MaxEpoch /\ registry[b].epoch < MaxEpoch
        /\ session[b] = "dialing"
    BY <1>0 DEF Register, RegisterBroker, MemberInv, MemberShape
  <1>2. /\ registry'[b] = [epoch |-> registry[b].epoch + 1, offset |-> 0]
        /\ \A c \in Brokers \ {b} : registry'[c] = registry[c]
        /\ registry[b].epoch + 1 \in 1 .. MaxEpoch
    BY <1>0, <1>1 DEF MemberInv, MemberShape
  <1>3. registry' = [c \in Brokers |-> [epoch |-> registry'[c].epoch,
                                        offset |-> registry'[c].offset]]
    BY <1>0, <1>1, <1>2 DEF MemberInv, MemberShape
  <1>4. \A c \in Brokers : registry'[c].epoch \in 1 .. MaxEpoch
    <2> TAKE c \in Brokers
    <2>1. CASE c = b
      BY <1>2, <2>1
    <2>2. CASE c # b
      BY <1>2, <2>2 DEF MemberInv, MemberShape
    <2> QED
      BY <2>1, <2>2
  <1>5. CASE /\ epoch' = [epoch EXCEPT ![b] = registry'[b].epoch]
             /\ session' = [session EXCEPT ![b] = "open"]
    <2>1. registry'[b].epoch \in 0 .. MaxEpoch
      BY <1>0, <1>4
    <2>2. /\ epoch' \in [Others -> 0 .. MaxEpoch]
          /\ session' \in [Others -> {"dialing", "open", "broken"}]
      BY <1>5, <2>1 DEF MemberInv, MemberShape
    <2>3. HeartbeatsAccepted'
      BY <1>0, <1>2, <1>5 DEF MemberInv, MemberShape, HeartbeatsAccepted
    <2> QED
      BY <1>3, <1>4, <2>2, <2>3 DEF MemberInv, MemberShape
  <1>6. CASE UNCHANGED <<epoch, session>>
    <2>1. HeartbeatsAccepted'
      BY <1>0, <1>1, <1>2, <1>6 DEF MemberInv, HeartbeatsAccepted
    <2> QED
      BY <1>3, <1>4, <1>6, <2>1 DEF MemberInv, MemberShape
  <1> QED
    BY <1>5, <1>6 DEF Register

LEMMA HeartbeatInv ==
    ASSUME MemberInv, NEW b \in Others, NEW o, Heartbeat(b, o)
    PROVE  MemberInv'
  <1>0. b \in Brokers /\ Others \subseteq Brokers
    BY DEF Others
  <1>1. /\ registry' = [registry EXCEPT ![b].offset = o]
        /\ UNCHANGED <<epoch, session>>
    BY DEF Heartbeat
  <1>2. /\ registry'[b] = [epoch |-> registry[b].epoch, offset |-> o]
        /\ \A c \in Brokers \ {b} : registry'[c] = registry[c]
    BY <1>0, <1>1 DEF MemberInv, MemberShape
  <1>3. registry' = [c \in Brokers |-> [epoch |-> registry'[c].epoch,
                                        offset |-> registry'[c].offset]]
    BY <1>0, <1>1, <1>2 DEF MemberInv, MemberShape
  <1>4. \A c \in Brokers : registry'[c].epoch = registry[c].epoch
    BY <1>2
  <1> QED
    BY <1>0, <1>1, <1>3, <1>4 DEF MemberInv, MemberShape, HeartbeatsAccepted

LEMMA SessionBreaksInv ==
    ASSUME MemberInv, NEW b \in Others, SessionBreaks(b)
    PROVE  MemberInv'
  BY DEF SessionBreaks, MemberInv, MemberShape, HeartbeatsAccepted

LEMMA MemberRestartInv ==
    ASSUME MemberInv, NEW b \in Brokers, MemberRestart(b)
    PROVE  MemberInv'
  <1>1. CASE b = Controller
    <2>1. /\ registry' = NewRegistry /\ epoch' = epoch
          /\ session' = [o \in Others |->
                            IF session[o] = "open" THEN "broken" ELSE session[o]]
      BY <1>1 DEF MemberRestart
    <2>2. HeartbeatsAccepted'
      BY <2>1 DEF HeartbeatsAccepted
    <2>3. MemberShape'
      BY <2>1, MembershipAssumption DEF MemberInv, MemberShape, NewRegistry
    <2> QED
      BY <2>2, <2>3 DEF MemberInv
  <1>2. CASE b # Controller
    <2>1. /\ epoch' = [epoch EXCEPT ![b] = 0] /\ registry' = registry
          /\ session' = [session EXCEPT ![b] = "dialing"]
      BY <1>2 DEF MemberRestart
    <2>2. 0 \in 0 .. MaxEpoch
      BY MembershipAssumption
    <2> QED
      BY <2>1, <2>2 DEF MemberInv, MemberShape, HeartbeatsAccepted
  <1> QED
    BY <1>1, <1>2

(***************************************************************************)
(* The same for the steps of the whole cluster.                            *)
(***************************************************************************)

\* Steps of the rest of the cluster do not touch the controller's registry.
LEMMA NextInv == MemberInv /\ [Next]_vars => MemberInv'
  <1> SUFFICES ASSUME MemberInv, [Next]_vars PROVE MemberInv'
    OBVIOUS
  <1>1. CASE UNCHANGED memberVars
    BY <1>1 DEF memberVars, MemberInv, MemberShape, HeartbeatsAccepted
  <1>2. CASE UNCHANGED vars
    BY <1>1, <1>2 DEF vars
  <1>3. ASSUME NEW b \in Others,
               RegisterBrokerApi(b) \/ HeartbeatApi(b) \/ RegistrarBreaks(b)
        PROVE  MemberInv'
    BY <1>3, RegisterInv, HeartbeatInv, SessionBreaksInv
       DEF RegisterBrokerApi, HeartbeatApi, RegistrarBreaks
  <1>4. ASSUME NEW b \in Others, NEW dialled \in BOOLEAN, MetaFetch(b, dialled)
        PROVE  MemberInv'
    BY <1>1, <1>4 DEF MetaFetch
  <1>5. ASSUME NEW t \in Topics, NEW dialled \in BOOLEAN, CreateTopics(t, dialled)
        PROVE  MemberInv'
    BY <1>1, <1>5 DEF CreateTopics
  <1>6. CASE AppendTopicRecords
    BY <1>1, <1>6 DEF AppendTopicRecords
  <1>7. ASSUME NEW b \in Brokers, NEW tp, Produce(b, tp)
        PROVE  MemberInv'
    BY <1>1, <1>7 DEF Produce
  <1>8. ASSUME NEW b \in Brokers, NEW tp, NEW expired, IsrTick(b, tp, expired)
        PROVE  MemberInv'
    BY <1>1, <1>8 DEF IsrTick
  <1>9. ASSUME NEW b \in Brokers, NEW tp,
               \/ ReplicaFetchServed(b, tp)
               \/ ReplicaFetchApplied(b, tp)
               \/ FetcherBreaks(b, tp)
        PROVE  MemberInv'
    BY <1>1, <1>9 DEF ReplicaFetchServed, ReplicaFetchApplied, FetcherBreaks
  <1>10. ASSUME NEW b \in Brokers, Restart(b)
         PROVE  MemberInv'
    BY <1>10, MemberRestartInv DEF Restart
  <1> QED
    BY <1>2, <1>3, <1>4, <1>5, <1>6, <1>7, <1>8, <1>9, <1>10 DEF Next

\* As long as a broker's connection stands, HandleBrokerHeartbeatApi finds its epoch
\* current, whatever answers were lost and whoever restarted before.
THEOREM HeartbeatsAreAccepted == Spec => []HeartbeatsAccepted
  <1>1. MemberInv => HeartbeatsAccepted
    BY DEF MemberInv
  <1>2. Init => MemberInv
    BY MemberInitInv DEF Init
  <1> QED
    BY <1>1, <1>2, NextInv, PTL DEF Spec
=============================================================================
