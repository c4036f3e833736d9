------------------------------ MODULE Membership ------------------------------
(***************************************************************************)
(* Brokers and their controller, the one with the lowest id: registration, *)
(* broker epochs and heartbeats. Peers are configured at the start, so     *)
(* every registry knows every broker from the beginning, at epoch 1.       *)
(***************************************************************************)
EXTENDS Integers, FiniteSets

CONSTANTS
    Brokers,    \* broker ids
    MaxEpoch    \* bound: registrations of a broker

ASSUME MembershipAssumption ==
    /\ Brokers \subseteq Nat \ {0} /\ IsFiniteSet(Brokers) /\ Brokers # {}
    /\ MaxEpoch \in Nat \ {0}

VARIABLES
    registry,  \* the controller's BrokerRegistry: [epoch, offset] of each broker
    epoch,     \* per broker, brokerEpoch: what its last registration returned
    session    \* per broker, its registrar: "dialing", "open" or "broken"

memberVars == <<registry, epoch, session>>

\* LowestBrokerID.
Controller == CHOOSE b \in Brokers : \A c \in Brokers : b <= c
Others == Brokers \ {Controller}

MemberTypeOK ==
    /\ registry \in [Brokers -> [epoch : 1 .. MaxEpoch, offset : Nat]]
    /\ epoch \in [Others -> 0 .. MaxEpoch]
    /\ session \in [Others -> {"dialing", "open", "broken"}]

\* Mutant of NewRegistry: the epochs start below the first one.
NewRegistryZero == [b \in Brokers |-> [epoch |-> 0, offset |-> 0]]

\* NewServer and SetPeers.
NewRegistry == [b \in Brokers |-> [epoch |-> 1, offset |-> 0]]

MemberInit ==
    /\ registry = NewRegistry
    /\ epoch = [b \in Others |-> 0]
    /\ session = [b \in Others |-> "dialing"]

\* RegisterBroker, for a broker that is known.
RegisterBroker(reg, b) ==
    [reg EXCEPT ![b] = [epoch |-> @.epoch + 1, offset |-> 0]]

\* Mutant of Register: the broker keeps the epoch it was known with.
RegisterStale(b) ==
    /\ session[b] = "dialing"
    /\ registry[b].epoch < MaxEpoch
    /\ registry' = RegisterBroker(registry, b)
    /\ epoch' = [epoch EXCEPT ![b] = registry[b].epoch]
    /\ session' = [session EXCEPT ![b] = "open"]

\* HandleBrokerRegistrationApi on the controller; register stores the epoch and
\* goes on with heartbeats, unless the connection fails before it has the
\* answer: then RegisterWithRetry will dial again.
Register(b) ==
    /\ session[b] = "dialing"
    /\ registry[b].epoch < MaxEpoch
    /\ registry' = RegisterBroker(registry, b)
    /\ \/ /\ epoch' = [epoch EXCEPT ![b] = registry'[b].epoch]
          /\ session' = [session EXCEPT ![b] = "open"]
       \/ UNCHANGED <<epoch, session>>

\* sendHeartbeat and HandleBrokerHeartbeatApi, ValidateAndUpdate. The answer
\* is only logged; a stale epoch is answered with an error and also only logged.
Heartbeat(b, offset) ==
    /\ session[b] = "open"
    /\ registry[b].epoch = epoch[b]
    /\ registry' = [registry EXCEPT ![b].offset = offset]
    /\ UNCHANGED <<epoch, session>>

\* The connection of the registrar fails; it is not dialled again.
SessionBreaks(b) ==
    /\ session[b] = "open"
    /\ session' = [session EXCEPT ![b] = "broken"]
    /\ UNCHANGED <<registry, epoch>>

\* The process of broker b ends and starts again.
MemberRestart(b) ==
    IF b = Controller
    THEN /\ registry' = NewRegistry
         /\ session' = [o \in Others |->
                           IF session[o] = "open" THEN "broken" ELSE session[o]]
         /\ UNCHANGED epoch
    ELSE /\ epoch' = [epoch EXCEPT ![b] = 0]
         /\ session' = [session EXCEPT ![b] = "dialing"]
         /\ UNCHANGED registry

\* As long as a broker's connection stands its heartbeats are not stale,
\* whatever answers were lost and whoever restarted before.
HeartbeatsAccepted ==
    \A b \in Others : session[b] = "open" => registry[b].epoch = epoch[b]
=============================================================================
