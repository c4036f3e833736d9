--------------------------- MODULE PartitionLeader ---------------------------
(***************************************************************************)
(* The leader's side of one partition: the PartitionState with its         *)
(* high-watermark and in-sync set, the purgatory in which acks=-1 produce  *)
(* requests wait, the Produce handlers, the Fetch handlers of followers    *)
(* and consumers, and the ISR manager's tick.                              *)
(*                                                                         *)
(* Every goroutine is a thread with a program counter. A step is what the  *)
(* code does under one acquisition of ps.mu, of the purgatory's mutex or   *)
(* of the commit log's mutex, or one unlocked read of a shared field; all  *)
(* interleavings between those are explored.                               *)
(***************************************************************************)
EXTENDS Integers, FiniteSets

CONSTANTS
    Replicas,   \* brokers in PartitionState.Replicas
    Leader,     \* PartitionState.LeaderBrokerID, this broker
    Producers,  \* connections that send Produce requests
    Consumers,  \* connections that send consumer Fetch requests
    Tick,       \* the ISR manager's goroutine
    MinISR,     \* the topic's min.insync.replicas
    MaxOffset,  \* bound: the log holds at most this many records
    MaxBatch    \* bound: records in one produced batch

Followers == Replicas \ {Leader}
Threads == Producers \cup Followers \cup {Tick}

ASSUME ConstantsAssumption ==
    /\ Leader \in Replicas
    /\ IsFiniteSet(Replicas)
    /\ Producers \cap Followers = {}
    /\ Tick \notin Producers \cup Followers
    /\ MinISR \in Nat
    /\ MaxOffset \in Nat
    /\ MaxBatch \in Nat

Offsets == 0 .. MaxOffset
NoLEO == -1     \* ReplicaLEO has no entry for the follower
All == -1       \* acks=all (constant.AckExactlyOnce)
                \* acks=0 differs from acks=1 only in sending no response

VARIABLES
    nextOffset,  \* CommitLog.nextOffset
    LEO, HWM,    \* PartitionState.LEO, .HWM
    ISR,         \* PartitionState.ISR
    ReplicaLEO,  \* PartitionState.ReplicaLEO
    caughtUp,    \* LastCaughtUp: never stamped, within lagMax, or older
    waiters,     \* purgatory: the RequiredOffset of each parked waiter
    done,        \* per RequiredOffset, what its Done channel carries
    pc,          \* where each thread is
    acks,        \* Produce handler's acks
    last,        \* Produce handler's lastOffset
    hwm,         \* the hwm a thread passes to CompleteUpTo
    plan,        \* tick: followers still to remove and to add
    visible      \* consumer Fetch handler's maxVisible

logVars == <<nextOffset, LEO>>
isrVars == <<ISR, ReplicaLEO, caughtUp>>
purgatoryVars == <<waiters, done>>
vars == <<logVars, HWM, isrVars, purgatoryVars, pc, acks, last, hwm,
          plan, visible>>

Locations == {"idle", "append", "onAppend", "advance", "complete", "park",
              "getHWM", "drain", "wait", "shrink", "check"}

TypeOK ==
    /\ nextOffset \in Offsets
    /\ LEO \in Offsets
    /\ HWM \in Offsets
    /\ ISR \subseteq Replicas
    /\ ReplicaLEO \in [Followers -> Offsets \cup {NoLEO}]
    /\ caughtUp \in [Followers -> {"never", "recent", "old"}]
    /\ waiters \subseteq Offsets
    /\ done \in [Offsets -> {"open", "ok", "failed"}]
    /\ pc \in [Threads -> Locations]
    /\ acks \in [Producers -> {All, 1}]
    /\ last \in [Producers -> Offsets]
    /\ hwm \in [Threads -> Offsets]
    /\ plan \in [remove : SUBSET Followers, add : SUBSET Followers]
    /\ visible \in [Consumers -> Offsets]

\* AssignReplicas: the leader alone is in sync, nothing is appended.
Init ==
    /\ nextOffset = 0
    /\ LEO = 0
    /\ HWM = 0
    /\ ISR = {Leader}
    /\ ReplicaLEO = [f \in Followers |-> NoLEO]
    /\ caughtUp = [f \in Followers |-> "never"]
    /\ waiters = {}
    /\ done = [o \in Offsets |-> "open"]
    /\ pc = [t \in Threads |-> "idle"]
    /\ acks = [p \in Producers |-> 1]
    /\ last = [p \in Producers |-> 0]
    /\ hwm = [t \in Threads |-> 0]
    /\ plan = [remove |-> {}, add |-> {}]
    /\ visible = [c \in Consumers |-> 0]

Goto(t, l) == pc' = [pc EXCEPT ![t] = l]

(***************************************************************************)
(* PartitionState.AdvanceHWM and PartitionPurgatory.CompleteUpTo, which    *)
(* every kind of thread but the consumers runs.                            *)
(***************************************************************************)

\* Mutant of Behind: a follower that holds all but the last record passes.
BehindByOne(h) == \E f \in ISR \ {Leader} : ReplicaLEO[f] < h - 1

\* Has a follower of the in-sync set not reported offsets up to h? A missing
\* ReplicaLEO entry counts as 0.
Behind(h) ==
    \E f \in ISR \ {Leader} :
        (IF ReplicaLEO[f] = NoLEO THEN 0 ELSE ReplicaLEO[f]) < h

\* h is newHWM, the minimum of LEO and of what in-sync followers reported.
NewHWM(h) == ~Behind(h) /\ \A g \in h + 1 .. LEO : Behind(g)

\* A Produce handler is done with its request.
Finish(p) ==
    /\ Goto(p, "idle")
    /\ acks' = [acks EXCEPT ![p] = 1]
    /\ last' = [last EXCEPT ![p] = 0]

\* AdvanceHWM returns to the thread that called it.
Return(t) ==
    \/ /\ t \in Producers /\ acks[t] # All
       /\ Finish(t)
    \/ /\ t \in Producers /\ acks[t] = All
       /\ Goto(t, "park")
       /\ UNCHANGED <<acks, last>>
    \/ /\ t \notin Producers
       /\ Goto(t, IF t = Tick THEN "check" ELSE "idle")
       /\ UNCHANGED <<acks, last>>

\* Mutant of AdvanceHWM: the guard that keeps HWM from falling is gone.
AdvanceHWMEither(t) ==
    /\ pc[t] = "advance"
    /\ \E newHWM \in 0 .. LEO :
        /\ NewHWM(newHWM)
        /\ HWM' = newHWM
        /\ hwm' = [hwm EXCEPT ![t] = newHWM]
    /\ Goto(t, "complete")
    /\ UNCHANGED <<logVars, isrVars, purgatoryVars, acks, last, plan, visible>>

\* The section of AdvanceHWM under ps.mu.
AdvanceHWM(t) ==
    /\ pc[t] = "advance"
    /\ \E newHWM \in 0 .. LEO :
        /\ NewHWM(newHWM)
        /\ IF newHWM > HWM
           THEN /\ HWM' = newHWM
                /\ hwm' = [hwm EXCEPT ![t] = newHWM]
                /\ Goto(t, "complete")
                /\ UNCHANGED <<acks, last>>
           ELSE /\ Return(t)
                /\ UNCHANGED <<HWM, hwm>>
    /\ UNCHANGED <<logVars, isrVars, purgatoryVars, plan, visible>>

\* Mutants of CompleteUpTo: a comparison that includes h, and waiters that are
\* answered but not forgotten.
CompleteUpToIncluding(h) ==
    /\ waiters' = {o \in waiters : o > h}
    /\ done' = [o \in Offsets |->
                  IF o \in waiters /\ o <= h THEN "ok" ELSE done[o]]

CompleteUpToKeeps(h) ==
    /\ done' = [o \in Offsets |->
                  IF o \in waiters /\ o < h THEN "ok" ELSE done[o]]
    /\ UNCHANGED waiters

\* CompleteUpTo(h) wakes, and forgets, the waiters with RequiredOffset < h.
CompleteUpTo(h) ==
    /\ waiters' = {o \in waiters : o >= h}
    /\ done' = [o \in Offsets |->
                  IF o \in waiters /\ o < h THEN "ok" ELSE done[o]]

\* FailAll wakes every waiter with NOT_ENOUGH_REPLICAS_AFTER_APPEND.
FailAll ==
    /\ waiters' = {}
    /\ done' = [o \in Offsets |-> IF o \in waiters THEN "failed" ELSE done[o]]

\* AdvanceHWM's call of CompleteUpTo, after ps.mu is released.
CompleteWaiters(t) ==
    /\ pc[t] = "complete"
    /\ CompleteUpTo(hwm[t])
    /\ hwm' = [hwm EXCEPT ![t] = 0]
    /\ Return(t)
    /\ UNCHANGED <<logVars, HWM, isrVars, plan, visible>>

(***************************************************************************)
(* HandleProduceApiKeys, for one partition of a non-idempotent request.    *)
(***************************************************************************)

\* The checks before the append; a request they reject changes nothing. The
\* in-sync set is read without ps.mu, long before the append.
ProduceCheck(p, a) ==
    /\ pc[p] = "idle"
    /\ a = All => Cardinality(ISR) >= MinISR
    /\ acks' = [acks EXCEPT ![p] = a]
    /\ Goto(p, "append")
    /\ UNCHANGED <<logVars, HWM, isrVars, purgatoryVars, last, hwm,
                   plan, visible>>

\* Mutant of ProduceAppend: the batch is given the offset before the next one.
ProduceAppendShared(p, n) ==
    /\ pc[p] = "append"
    /\ nextOffset + n <= MaxOffset
    /\ nextOffset' = nextOffset + n
    /\ last' = [last EXCEPT ![p] = IF nextOffset > 0 THEN nextOffset - 1 ELSE 0]
    /\ Goto(p, "onAppend")
    /\ UNCHANGED <<LEO, HWM, isrVars, purgatoryVars, acks, hwm, plan, visible>>

\* CommitLog.AppendRaw gives the batch the next n offsets.
ProduceAppend(p, n) ==
    /\ pc[p] = "append"
    /\ nextOffset + n <= MaxOffset
    /\ nextOffset' = nextOffset + n
    /\ last' = [last EXCEPT ![p] = nextOffset + n - 1]
    /\ Goto(p, "onAppend")
    /\ UNCHANGED <<LEO, HWM, isrVars, purgatoryVars, acks, hwm, plan,
                   visible>>

\* AppendRaw fails: KAFKA_STORAGE_ERROR, and the request is over.
ProduceAppendFails(p) ==
    /\ pc[p] = "append"
    /\ Finish(p)
    /\ UNCHANGED <<logVars, HWM, isrVars, purgatoryVars, hwm, plan, visible>>

\* Mutant of OnLeaderAppend: lastOffset taken for the next offset.
OnLeaderAppendPast(p) ==
    /\ pc[p] = "onAppend"
    /\ LEO' = last[p] + 2
    /\ Goto(p, "advance")
    /\ UNCHANGED <<nextOffset, HWM, isrVars, purgatoryVars, acks, last, hwm,
                   plan, visible>>

\* OnLeaderAppend up to its call of AdvanceHWM.
OnLeaderAppend(p) ==
    /\ pc[p] = "onAppend"
    /\ LEO' = IF last[p] + 1 > LEO THEN last[p] + 1 ELSE LEO
    /\ Goto(p, "advance")
    /\ UNCHANGED <<nextOffset, HWM, isrVars, purgatoryVars, acks, last,
                   hwm, plan, visible>>

\* Mutant of ProducePark: no CompleteUpTo after Add.
ProduceParkOnly(p) ==
    /\ pc[p] = "park"
    /\ waiters' = waiters \cup {last[p]}
    /\ Goto(p, "wait")
    /\ UNCHANGED <<logVars, HWM, isrVars, done, acks, last, hwm, plan, visible>>

\* Purgatory.Add of an acks=-1 request's waiter.
ProducePark(p) ==
    /\ pc[p] = "park"
    /\ waiters' = waiters \cup {last[p]}
    /\ Goto(p, "getHWM")
    /\ UNCHANGED <<logVars, HWM, isrVars, done, acks, last, hwm, plan,
                   visible>>

\* The argument of the second CompleteUpTo is read under ps.mu ...
ProduceGetHWM(p) ==
    /\ pc[p] = "getHWM"
    /\ hwm' = [hwm EXCEPT ![p] = HWM]
    /\ Goto(p, "drain")
    /\ UNCHANGED <<logVars, HWM, isrVars, purgatoryVars, acks, last,
                   plan, visible>>

\* ... and used after it is released.
ProduceDrain(p) ==
    /\ pc[p] = "drain"
    /\ CompleteUpTo(hwm[p])
    /\ hwm' = [hwm EXCEPT ![p] = 0]
    /\ Goto(p, "wait")
    /\ UNCHANGED <<logVars, HWM, isrVars, acks, last, plan, visible>>

\* The select takes the answer from the Done channel.
ProduceAnswered(p) ==
    /\ pc[p] = "wait"
    /\ done[last[p]] # "open"
    /\ Finish(p)
    /\ UNCHANGED <<logVars, HWM, isrVars, purgatoryVars, hwm, plan, visible>>

\* The select takes the timer, which it may even when Done is ready too. The
\* waiter stays in the purgatory.
ProduceTimeout(p) ==
    /\ pc[p] = "wait"
    /\ Finish(p)
    /\ UNCHANGED <<logVars, HWM, isrVars, purgatoryVars, hwm, plan, visible>>

(***************************************************************************)
(* HandleFetchApiKeys. A follower asks for any offset: its fetcher starts  *)
(* at 0 after a restart and may be ahead of LEO.                           *)
(***************************************************************************)

\* UpdateReplicaLEO up to its call of AdvanceHWM.
FollowerFetch(f, upto) ==
    /\ pc[f] = "idle"
    /\ ReplicaLEO' = [ReplicaLEO EXCEPT ![f] = upto]
    /\ caughtUp' = IF upto >= LEO THEN [caughtUp EXCEPT ![f] = "recent"]
                                  ELSE caughtUp
    /\ Goto(f, "advance")
    /\ UNCHANGED <<logVars, HWM, ISR, purgatoryVars, acks, last, hwm,
                   plan, visible>>

\* A consumer is sent the records below maxVisible, the high-watermark.
ConsumerFetch(c) ==
    /\ visible' = [visible EXCEPT ![c] = HWM]
    /\ UNCHANGED <<logVars, HWM, isrVars, purgatoryVars, pc, acks, last, hwm,
                   plan>>

(***************************************************************************)
(* ISRManager.tick for this partition.                                     *)
(***************************************************************************)

\* Mutant of TickSnapshot: a follower that never caught up is not dropped.
TickSnapshotSpares ==
    /\ pc[Tick] = "idle"
    /\ plan' = [remove |-> {f \in ISR \ {Leader} : caughtUp[f] = "old"},
                add |-> {r \in Followers \ ISR :
                           ReplicaLEO[r] # NoLEO /\ ReplicaLEO[r] >= HWM}]
    /\ plan' # [remove |-> {}, add |-> {}]
    /\ Goto(Tick, "shrink")
    /\ UNCHANGED <<logVars, HWM, isrVars, purgatoryVars, acks, last, hwm,
                   visible>>

\* Snapshot: both loops decide on it. A tick with nothing to do has no step.
TickSnapshot ==
    /\ pc[Tick] = "idle"
    /\ plan' = [remove |-> {f \in ISR \ {Leader} : caughtUp[f] # "recent"},
                add |-> {r \in Followers \ ISR :
                           ReplicaLEO[r] # NoLEO /\ ReplicaLEO[r] >= HWM}]
    /\ plan' # [remove |-> {}, add |-> {}]
    /\ Goto(Tick, "shrink")
    /\ UNCHANGED <<logVars, HWM, isrVars, purgatoryVars, acks, last,
                   hwm, visible>>

\* RemoveFromISR of one follower.
TickRemove(f) ==
    /\ pc[Tick] = "shrink"
    /\ f \in plan.remove
    /\ ISR' = ISR \ {f}
    /\ plan' = [plan EXCEPT !.remove = @ \ {f}]
    /\ UNCHANGED <<logVars, HWM, ReplicaLEO, caughtUp, purgatoryVars,
                   pc, acks, last, hwm, visible>>

\* AddToISR of one follower, once the first loop is over.
TickAdd(f) ==
    /\ pc[Tick] = "shrink"
    /\ plan.remove = {}
    /\ f \in plan.add
    /\ ISR' = ISR \cup {f}
    /\ plan' = [plan EXCEPT !.add = @ \ {f}]
    /\ UNCHANGED <<logVars, HWM, ReplicaLEO, caughtUp, purgatoryVars,
                   pc, acks, last, hwm, visible>>

\* The loops are over; the PartitionRecord goes to the metadata log and
\* AdvanceHWM is next.
TickPublish ==
    /\ pc[Tick] = "shrink"
    /\ plan = [remove |-> {}, add |-> {}]
    /\ Goto(Tick, "advance")
    /\ UNCHANGED <<logVars, HWM, isrVars, purgatoryVars, acks, last,
                   hwm, plan, visible>>

\* checkMinISR. Only the tick changes ISR, so its second Snapshot and FailAll
\* are one step.
TickCheckMinISR ==
    /\ pc[Tick] = "check"
    /\ IF Cardinality(ISR) < MinISR THEN FailAll ELSE UNCHANGED purgatoryVars
    /\ Goto(Tick, "idle")
    /\ UNCHANGED <<logVars, HWM, isrVars, acks, last, hwm, plan,
                   visible>>

\* Time passes: lagMax has gone by since the follower was last caught up.
LagPasses(f) ==
    /\ caughtUp[f] = "recent"
    /\ caughtUp' = [caughtUp EXCEPT ![f] = "old"]
    /\ UNCHANGED <<logVars, HWM, ISR, ReplicaLEO, purgatoryVars, pc,
                   acks, last, hwm, plan, visible>>

(***************************************************************************)

\* What a Produce handler does once it has accepted a request, but for the
\* timer of its select.
ProduceStep(p) ==
    \/ \E n \in 1 .. MaxBatch : ProduceAppend(p, n)
    \/ ProduceAppendFails(p)
    \/ OnLeaderAppend(p)
    \/ AdvanceHWM(p)
    \/ CompleteWaiters(p)
    \/ ProducePark(p)
    \/ ProduceGetHWM(p)
    \/ ProduceDrain(p)
    \/ ProduceAnswered(p)

FetchStep(f) == AdvanceHWM(f) \/ CompleteWaiters(f)

TickStep ==
    \/ TickSnapshot
    \/ \E f \in Followers : TickRemove(f) \/ TickAdd(f)
    \/ TickPublish
    \/ AdvanceHWM(Tick)
    \/ CompleteWaiters(Tick)
    \/ TickCheckMinISR

Next ==
    \/ \E p \in Producers : \E a \in {All, 1} : ProduceCheck(p, a)
    \/ \E p \in Producers : ProduceStep(p) \/ ProduceTimeout(p)
    \/ \E f \in Followers : \E upto \in Offsets : FollowerFetch(f, upto)
    \/ \E f \in Followers : FetchStep(f) \/ LagPasses(f)
    \/ \E c \in Consumers : ConsumerFetch(c)
    \/ TickStep

Spec == Init /\ [][Next]_vars

\* Goroutines are scheduled and time passes. Nobody has to send requests, and
\* no request has to time out.
Fairness ==
    /\ \A p \in Producers : WF_vars(ProduceStep(p))
    /\ \A f \in Followers : WF_vars(FetchStep(f)) /\ WF_vars(LagPasses(f))
    /\ WF_vars(TickStep)

FairSpec == Spec /\ Fairness

(***************************************************************************)
(* Properties.                                                             *)
(***************************************************************************)

\* A producer that was told its acks=-1 request succeeded has its last record
\* below the high-watermark, whichever thread woke it and however stale the
\* hwm that thread passed to CompleteUpTo (strict comparison included).
AckedIsCommitted == \A o \in Offsets : done[o] = "ok" => o < HWM

\* Some thread is still to call CompleteUpTo with an hwm above o.
ToBeWoken(o) ==
    \/ \E t \in Threads : pc[t] \in {"complete", "drain"} /\ o < hwm[t]
    \/ \E p \in Producers : pc[p] = "getHWM" /\ last[p] = o

\* No wake-up is lost between AdvanceHWM, which releases ps.mu before it calls
\* CompleteUpTo, and Add followed by CompleteUpTo(GetHWM()): while a parked
\* waiter is below the high-watermark, some thread is still to wake it.
NoLostWakeup == \A o \in waiters : o < HWM => ToBeWoken(o)

\* The Produce handler p has appended its batch; it is yet to park its waiter.
Appended(p) == pc[p] \in {"onAppend", "advance", "complete", "park",
                          "getHWM", "drain", "wait"}
BeforePark(p) == pc[p] \in {"onAppend", "advance", "complete", "park"}

\* The bookkeeping behind the two properties above: no thread holds an hwm
\* above the high-watermark, which the records in the log bound; concurrent
\* handlers own different offsets; and a waiter is in the purgatory from its
\* Add until it is answered, and only then.
LeaderInv ==
    /\ HWM <= LEO /\ LEO <= nextOffset
    /\ \A t \in Threads : hwm[t] <= HWM
    /\ \A c \in Consumers : visible[c] <= HWM
    /\ \A p \in Producers : Appended(p) => last[p] < nextOffset
    /\ \A p, q \in Producers :
          p # q /\ Appended(p) /\ Appended(q) => last[p] # last[q]
    /\ \A p \in Producers :
          BeforePark(p) => last[p] \notin waiters /\ done[last[p]] = "open"
    /\ \A o \in waiters : done[o] = "open"
    /\ \A o \in Offsets :
          o \in waiters \/ done[o] # "open" => o < nextOffset

\* A waiter is answered once: its Done channel is never written and closed
\* again (closing it twice panics), so success and failure cannot both be
\* reported although AdvanceHWM, the handler and FailAll all answer waiters.
AnswerIsFinal ==
    [][\A o \in Offsets : done[o] # "open" => done'[o] = done[o]]_vars

\* What the partition promises its clients is what AckedLog says: it only
\* grows, commits and acknowledges in that order, never takes back a commit,
\* and shows consumers committed records only.
Abs == INSTANCE AckedLog WITH
           end <- nextOffset,
           committed <- HWM,
           acked <- {o \in Offsets : done[o] = "ok"},
           refused <- {o \in Offsets : done[o] = "failed"},
           served <- visible

ImplementsAckedLog == Abs!Spec

\* The high-watermark passes an offset only when every in-sync follower has
\* reported, by fetching from there, that it holds all records below it,
\* although fetches, appends and ISR changes all recompute it concurrently.
CommitNeedsISR ==
    [][HWM' # HWM =>
           /\ HWM' <= nextOffset
           /\ \A f \in ISR \ {Leader} : ReplicaLEO[f] >= HWM']_vars

\* Every parked request is answered by the broker itself, without its timer,
\* even if followers never fetch again: the tick drops them from the in-sync
\* set and then completes or fails what is parked.
ParkedIsAnswered ==
    \A o \in Offsets : (o \in waiters) ~> (o \notin waiters)

\* README: "ISR shrink fails parked waiters with
\* NOT_ENOUGH_REPLICAS_AFTER_APPEND (20)": a waiter that the tick takes out of
\* the purgatory while the in-sync set is too small is failed.
ShrinkFailsParked ==
    [][\A o \in waiters \ waiters' :
           pc[Tick] \in {"complete", "check"} /\ pc'[Tick] # pc[Tick]
               /\ Cardinality(ISR) < MinISR
           => done'[o] = "failed"]_vars

\* full_flow.md: "only re-add when the follower is actually caught up to HWM":
\* a follower enters the in-sync set only with its LEO at the high-watermark.
ExpandOnlyCaughtUp ==
    [][\A f \in ISR' \ ISR : ReplicaLEO[f] >= HWM]_vars
=============================================================================
