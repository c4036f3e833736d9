------------------------------ MODULE AckedLog ------------------------------
(***************************************************************************)
(* What a partition promises: a log that grows, a committed prefix of it   *)
(* that grows, requests that are acknowledged or refused once and          *)
(* acknowledged only when committed, and consumers that see the committed  *)
(* prefix only and never see it shrink.                                    *)
(***************************************************************************)
EXTENDS Integers

CONSTANT Consumers

VARIABLES
    end,        \* records appended so far
    committed,  \* offsets below it are committed
    acked,      \* last offsets of the requests acknowledged with success
    refused,    \* last offsets of the requests failed after the append
    served      \* per consumer, the offset its reads end at

absVars == <<end, committed, acked, refused, served>>

Init ==
    /\ end = 0
    /\ committed = 0
    /\ acked = {}
    /\ refused = {}
    /\ served = [c \in Consumers |-> 0]

Grow ==
    /\ end' > end
    /\ UNCHANGED <<committed, acked, refused, served>>

Commit ==
    /\ committed' > committed
    /\ committed' <= end
    /\ UNCHANGED <<end, acked, refused, served>>

Acknowledge ==
    /\ acked \subseteq acked'
    /\ \A o \in acked' \ acked : o < committed /\ o \notin refused
    /\ UNCHANGED <<end, committed, refused, served>>

Refuse ==
    /\ refused \subseteq refused'
    /\ \A o \in refused' \ refused : o < end /\ o \notin acked
    /\ UNCHANGED <<end, committed, acked, served>>

Serve(c) ==
    /\ served'[c] >= served[c]
    /\ served'[c] <= committed
    /\ served' = [served EXCEPT ![c] = served'[c]]
    /\ UNCHANGED <<end, committed, acked, refused>>

Next ==
    \/ Grow
    \/ Commit
    \/ Acknowledge
    \/ Refuse
    \/ \E c \in Consumers : Serve(c)

Spec == Init /\ [][Next]_absVars
=============================================================================
