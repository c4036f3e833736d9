----------------------- MODULE PartitionLeaderProofs ------------------------
(***************************************************************************)
(* Proofs about PartitionLeader for every set of replicas and connections, *)
(* every min.insync.replicas and every bound on the log.                   *)
(***************************************************************************)
EXTENDS PartitionLeader, TLAPS

\* The kinds of thread are disjoint.
LEMMA ThreadKinds ==
    /\ Producers \subseteq Threads
    /\ Followers \subseteq Threads
    /\ Tick \in Threads
    /\ Tick \notin Producers
  BY ConstantsAssumption DEF Threads, Followers

LEMMA GotoType ==
    ASSUME TypeOK, NEW t \in Threads, NEW l \in Locations, Goto(t, l)
    PROVE  pc' \in [Threads -> Locations]
  BY DEF Goto, TypeOK

LEMMA FinishType ==
    ASSUME TypeOK, NEW p \in Producers, Finish(p)
    PROVE  /\ pc' \in [Threads -> Locations]
           /\ acks' \in [Producers -> {All, 1}]
           /\ last' \in [Producers -> Offsets]
  <1>1. pc' \in [Threads -> Locations]
    BY GotoType, ThreadKinds DEF Finish, Locations
  <1>2. acks' \in [Producers -> {All, 1}]
    BY DEF Finish, TypeOK
  <1>3. last' \in [Producers -> Offsets]
    BY ConstantsAssumption DEF Finish, TypeOK, Offsets
  <1> QED
    BY <1>1, <1>2, <1>3

\* Returning from AdvanceHWM keeps the types of what it may change.
LEMMA ReturnType ==
    ASSUME TypeOK, NEW t \in Threads, Return(t)
    PROVE  /\ pc' \in [Threads -> Locations]
           /\ acks' \in [Producers -> {All, 1}]
           /\ last' \in [Producers -> Offsets]
  <1>1. CASE t \in Producers /\ Finish(t)
    BY <1>1, FinishType
  <1>2. CASE Goto(t, "park") /\ UNCHANGED <<acks, last>>
    BY <1>2, GotoType DEF Locations, TypeOK
  <1>3. CASE /\ Goto(t, IF t = Tick THEN "check" ELSE "idle")
             /\ UNCHANGED <<acks, last>>
    BY <1>3, GotoType DEF Locations, TypeOK
  <1> QED
    BY <1>1, <1>2, <1>3 DEF Return

\* ... and touches nothing of the other threads'.
LEMMA ReturnEffect ==
    ASSUME TypeOK, NEW t \in Threads, Return(t)
    PROVE  /\ \A s \in Threads \ {t} : pc'[s] = pc[s]
           /\ \A p \in Producers \ {t} : last'[p] = last[p]
           /\ \/ pc'[t] \in {"idle", "check"}
              \/ pc'[t] = "park" /\ last' = last
  BY ThreadKinds DEF TypeOK, Return, Finish, Goto

\* The invariant that is inductive.
Inv == TypeOK /\ LeaderInv /\ NoLostWakeup /\ AckedIsCommitted

LEMMA InitInv == Init => Inv
  BY ConstantsAssumption
     DEF Init, Inv, TypeOK, LeaderInv, NoLostWakeup, AckedIsCommitted, Offsets,
         Locations, Appended, BeforePark, Threads, Followers

\* A thread that is not about to wake anybody may move without harm.
LEMMA MoveKeepsWaker ==
    ASSUME TypeOK, NEW o, ToBeWoken(o), NEW t \in Threads, NEW l, Goto(t, l),
           pc[t] \notin {"complete", "drain", "getHWM"},
           \A s \in Threads \ {t} : hwm'[s] = hwm[s],
           \A p \in Producers \ {t} : last'[p] = last[p]
    PROVE  ToBeWoken(o)'
  <1>1. CASE \E s \in Threads : pc[s] \in {"complete", "drain"} /\ o < hwm[s]
    BY <1>1 DEF Goto, ToBeWoken, TypeOK
  <1>2. CASE \E p \in Producers : pc[p] = "getHWM" /\ last[p] = o
    BY <1>2, ThreadKinds DEF Goto, ToBeWoken, TypeOK
  <1> QED
    BY <1>1, <1>2 DEF ToBeWoken

(***************************************************************************)
(* One lemma per action.                                                   *)
(***************************************************************************)

LEMMA ProduceCheckInv ==
    ASSUME Inv, NEW p \in Producers, NEW a \in {All, 1}, ProduceCheck(p, a)
    PROVE  Inv'
  <1> USE DEF Inv, ProduceCheck, logVars, isrVars, purgatoryVars
  <1>1. TypeOK'
    BY GotoType, ThreadKinds DEF TypeOK, Locations
  <1>2. LeaderInv'
    BY ThreadKinds DEF LeaderInv, Appended, BeforePark, TypeOK, Goto
  <1>3. NoLostWakeup'
    BY MoveKeepsWaker, ThreadKinds DEF NoLostWakeup, TypeOK
  <1>4. AckedIsCommitted'
    BY DEF AckedIsCommitted
  <1> QED
    BY <1>1, <1>2, <1>3, <1>4

LEMMA ProduceAppendInv ==
    ASSUME Inv, NEW p \in Producers, NEW n \in 1 .. MaxBatch,
           ProduceAppend(p, n)
    PROVE  Inv'
  <1> USE DEF Inv, ProduceAppend, isrVars, purgatoryVars
  <1>1. TypeOK'
    <2>1. /\ nextOffset' \in Offsets
          /\ last' \in [Producers -> Offsets]
      BY ConstantsAssumption DEF TypeOK, Offsets
    <2>2. pc' \in [Threads -> Locations]
      BY GotoType, ThreadKinds DEF Locations
    <2> QED
      BY <2>1, <2>2 DEF TypeOK
  <1>2. LeaderInv'
    BY ThreadKinds, ConstantsAssumption
       DEF LeaderInv, Appended, BeforePark, TypeOK, Goto, Offsets
  <1>3. NoLostWakeup'
    BY MoveKeepsWaker, ThreadKinds DEF NoLostWakeup, TypeOK
  <1>4. AckedIsCommitted'
    BY DEF AckedIsCommitted
  <1> QED
    BY <1>1, <1>2, <1>3, <1>4

\* A handler that finishes no longer owns an offset; its waiter may remain.
LEMMA ProduceFinishInv ==
    ASSUME Inv, NEW p \in Producers,
           \/ ProduceAppendFails(p)
           \/ ProduceAnswered(p)
           \/ ProduceTimeout(p)
    PROVE  Inv'
  <1>1. /\ Finish(p)
        /\ pc[p] \in {"append", "wait"}
        /\ UNCHANGED <<logVars, HWM, isrVars, purgatoryVars, hwm, plan, visible>>
    BY DEF ProduceAppendFails, ProduceAnswered, ProduceTimeout
  <1> USE <1>1 DEF Inv, logVars, isrVars, purgatoryVars
  <1>2. TypeOK'
    BY FinishType DEF TypeOK
  <1>3. LeaderInv'
    BY ThreadKinds DEF LeaderInv, Appended, BeforePark, TypeOK, Finish, Goto
  <1>4. NoLostWakeup'
    BY MoveKeepsWaker, ThreadKinds DEF NoLostWakeup, TypeOK, Finish
  <1>5. AckedIsCommitted'
    BY DEF AckedIsCommitted
  <1> QED
    BY <1>2, <1>3, <1>4, <1>5

LEMMA OnLeaderAppendInv ==
    ASSUME Inv, NEW p \in Producers, OnLeaderAppend(p)
    PROVE  Inv'
  <1> USE DEF Inv, OnLeaderAppend, isrVars, purgatoryVars
  <1>1. last[p] < nextOffset
    BY DEF LeaderInv, Appended
  <1>2. TypeOK'
    <2>1. LEO' \in Offsets
      BY <1>1, ConstantsAssumption DEF TypeOK, Offsets
    <2>2. pc' \in [Threads -> Locations]
      BY GotoType, ThreadKinds DEF Locations
    <2> QED
      BY <2>1, <2>2 DEF TypeOK
  <1>3. LeaderInv'
    BY <1>1, ThreadKinds, ConstantsAssumption
       DEF LeaderInv, Appended, BeforePark, TypeOK, Goto, Offsets
  <1>4. NoLostWakeup'
    BY MoveKeepsWaker, ThreadKinds DEF NoLostWakeup, TypeOK
  <1>5. AckedIsCommitted'
    BY DEF AckedIsCommitted
  <1> QED
    BY <1>2, <1>3, <1>4, <1>5

LEMMA AdvanceHWMInv ==
    ASSUME Inv, NEW t \in Threads, AdvanceHWM(t)
    PROVE  Inv'
  <1> USE DEF Inv, logVars, isrVars, purgatoryVars
  <1>0. /\ pc[t] = "advance"
        /\ UNCHANGED <<logVars, isrVars, purgatoryVars, plan, visible>>
    BY DEF AdvanceHWM
  <1>1. ASSUME NEW newHWM \in 0 .. LEO, newHWM > HWM, HWM' = newHWM,
               hwm' = [hwm EXCEPT ![t] = newHWM], Goto(t, "complete"),
               UNCHANGED <<acks, last>>
        PROVE  Inv'
    <2>0. newHWM \in Offsets
      BY ConstantsAssumption DEF TypeOK, Offsets
    <2>1. TypeOK'
      BY <2>0, <1>0, <1>1, GotoType DEF TypeOK, Locations
    <2>2. LeaderInv'
      BY <1>0, <1>1, ThreadKinds
         DEF LeaderInv, Appended, BeforePark, TypeOK, Goto, Offsets
    <2>3. NoLostWakeup'
      BY <1>0, <1>1 DEF NoLostWakeup, ToBeWoken, TypeOK, Goto
    <2>4. AckedIsCommitted'
      BY <1>0, <1>1 DEF AckedIsCommitted, TypeOK, Offsets
    <2> QED
      BY <2>1, <2>2, <2>3, <2>4
  <1>2. ASSUME Return(t), UNCHANGED <<HWM, hwm>>
        PROVE  Inv'
    <2>1. TypeOK'
      BY <1>0, <1>2, ReturnType DEF TypeOK
    <2>2. LeaderInv'
      BY <1>0, <1>2, ReturnEffect, ThreadKinds
         DEF LeaderInv, Appended, BeforePark, TypeOK
    <2>3. NoLostWakeup'
      <3> SUFFICES ASSUME NEW o \in waiters, o < HWM
                   PROVE  ToBeWoken(o)'
        BY <1>0, <1>2 DEF NoLostWakeup
      <3>1. ToBeWoken(o)
        BY DEF NoLostWakeup
      <3> QED
        BY <3>1, <1>0, <1>2, ReturnEffect, ThreadKinds DEF ToBeWoken, TypeOK
    <2>4. AckedIsCommitted'
      BY <1>0, <1>2 DEF AckedIsCommitted
    <2> QED
      BY <2>1, <2>2, <2>3, <2>4
  <1> QED
    BY <1>1, <1>2 DEF AdvanceHWM

\* What CompleteUpTo leaves true, whatever else the step does.
LEMMA CompleteUpToEffect ==
    ASSUME Inv, NEW h \in Offsets, h <= HWM, CompleteUpTo(h)
    PROVE  /\ waiters' \subseteq Offsets
           /\ done' \in [Offsets -> {"open", "ok", "failed"}]
           /\ \A o \in waiters' : o \in waiters /\ o >= h /\ done'[o] = "open"
           /\ \A o \in Offsets :
                 \/ done'[o] = done[o]
                 \/ o \in waiters /\ done'[o] = "ok" /\ o < HWM
  <1> USE DEF Inv, CompleteUpTo
  <1>1. waiters' \subseteq Offsets
    BY DEF TypeOK
  <1>2. done' \in [Offsets -> {"open", "ok", "failed"}]
    BY DEF TypeOK
  <1>3. ASSUME NEW o \in waiters'
        PROVE  o \in waiters /\ o >= h /\ done'[o] = "open"
    <2>1. o \in waiters /\ o >= h /\ o \in Offsets
      BY DEF TypeOK
    <2> QED
      BY <2>1 DEF LeaderInv, Offsets
  <1>4. ASSUME NEW o \in Offsets
        PROVE  \/ done'[o] = done[o]
               \/ o \in waiters /\ done'[o] = "ok" /\ o < HWM
    BY DEF TypeOK, Offsets
  <1> QED
    BY <1>1, <1>2, <1>3, <1>4

\* Answering waiters keeps them apart from the requests not yet parked.
LEMMA AnswerKeepsApart ==
    ASSUME Inv, nextOffset' = nextOffset,
           waiters' \subseteq waiters,
           \A o \in waiters' : done'[o] = "open",
           \A o \in Offsets : done'[o] = done[o] \/ o \in waiters,
           \A p \in Producers :
              BeforePark(p)' => BeforePark(p) /\ last'[p] = last[p]
    PROVE  /\ \A p \in Producers : BeforePark(p)' =>
                 last'[p] \notin waiters' /\ done'[last'[p]] = "open"
           /\ \A o \in waiters' : done'[o] = "open"
           /\ \A o \in Offsets :
                 o \in waiters' \/ done'[o] # "open" => o < nextOffset'
  <1>1. ASSUME NEW p \in Producers, BeforePark(p)'
        PROVE  last'[p] \notin waiters' /\ done'[last'[p]] = "open"
    <2>1. last'[p] = last[p] /\ last[p] \in Offsets
      BY <1>1 DEF Inv, TypeOK
    <2>2. last[p] \notin waiters /\ done[last[p]] = "open"
      BY <1>1 DEF Inv, LeaderInv
    <2> QED
      BY <2>1, <2>2
  <1> QED
    BY <1>1 DEF Inv, LeaderInv

\* A thread that wakes the waiters below the hwm it holds keeps the invariant,
\* if it goes on as CompleteWaiters and ProduceDrain do.
LEMMA WakeInv ==
    ASSUME Inv, NEW t \in Threads, pc[t] # "getHWM",
           CompleteUpTo(hwm[t]),
           hwm' = [hwm EXCEPT ![t] = 0],
           UNCHANGED <<nextOffset, LEO, HWM, ISR, ReplicaLEO, caughtUp, plan,
                       visible>>,
           pc' \in [Threads -> Locations],
           acks' \in [Producers -> {All, 1}],
           last' \in [Producers -> Offsets],
           \A s \in Threads \ {t} : pc'[s] = pc[s],
           \A p \in Producers \ {t} : last'[p] = last[p],
           \A p \in Producers :
              /\ Appended(p)' => Appended(p) /\ last'[p] = last[p]
              /\ BeforePark(p)' => BeforePark(p) /\ last'[p] = last[p]
    PROVE  Inv'
  <1>1. TypeOK /\ LeaderInv /\ NoLostWakeup /\ AckedIsCommitted
    BY DEF Inv
  <1>2. /\ hwm \in [Threads -> Offsets]
        /\ hwm[t] <= HWM
        /\ HWM \in Nat
    BY <1>1 DEF TypeOK, LeaderInv, Offsets
  <1>3. /\ waiters' \subseteq Offsets
        /\ done' \in [Offsets -> {"open", "ok", "failed"}]
        /\ \A o \in waiters' : o \in waiters /\ o >= hwm[t] /\ done'[o] = "open"
        /\ \A o \in Offsets :
              \/ done'[o] = done[o]
              \/ o \in waiters /\ done'[o] = "ok" /\ o < HWM
    BY <1>2, CompleteUpToEffect
  <1>4. /\ hwm' \in [Threads -> Offsets]
        /\ \A s \in Threads \ {t} : hwm'[s] = hwm[s]
        /\ hwm'[t] = 0
    BY <1>2, ConstantsAssumption DEF Offsets
  <1>5. TypeOK'
    BY <1>1, <1>3, <1>4 DEF TypeOK
  <1>6. LeaderInv'
    <2>1. \A s \in Threads : hwm'[s] <= HWM
      BY <1>1, <1>2, <1>4, SMTT(30) DEF LeaderInv
    <2>2. /\ \A p \in Producers : BeforePark(p)' =>
                last'[p] \notin waiters' /\ done'[last'[p]] = "open"
          /\ \A o \in waiters' : done'[o] = "open"
          /\ \A o \in Offsets :
                o \in waiters' \/ done'[o] # "open" => o < nextOffset'
      BY <1>3, AnswerKeepsApart
    <2>3. /\ \A p \in Producers : Appended(p)' => last'[p] < nextOffset
          /\ \A p, q \in Producers :
                p # q /\ Appended(p)' /\ Appended(q)' => last'[p] # last'[q]
      BY <1>1 DEF LeaderInv
    <2> QED
      BY <1>1, <2>1, <2>2, <2>3 DEF LeaderInv
  <1>7. NoLostWakeup'
    <2> SUFFICES ASSUME NEW o \in waiters', o < HWM
                 PROVE  ToBeWoken(o)'
      BY DEF NoLostWakeup
    <2>1. ToBeWoken(o) /\ o >= hwm[t] /\ o \in Int /\ hwm[t] \in Int
      BY <1>1, <1>2, <1>3 DEF NoLostWakeup, Offsets
    <2>2. CASE \E s \in Threads : pc[s] \in {"complete", "drain"} /\ o < hwm[s]
      <3> PICK s \in Threads : pc[s] \in {"complete", "drain"} /\ o < hwm[s]
        BY <2>2
      <3>1. s # t
        BY <2>1
      <3> QED
        BY <3>1, <1>4 DEF ToBeWoken
    <2>3. CASE \E p \in Producers : pc[p] = "getHWM" /\ last[p] = o
      BY <2>3, ThreadKinds DEF ToBeWoken
    <2> QED
      BY <2>1, <2>2, <2>3 DEF ToBeWoken
  <1>8. AckedIsCommitted'
    BY <1>1, <1>3 DEF AckedIsCommitted
  <1> QED
    BY <1>5, <1>6, <1>7, <1>8 DEF Inv

LEMMA CompleteWaitersInv ==
    ASSUME Inv, NEW t \in Threads, CompleteWaiters(t)
    PROVE  Inv'
  <1>1. /\ pc[t] = "complete"
        /\ CompleteUpTo(hwm[t])
        /\ Return(t)
        /\ hwm' = [hwm EXCEPT ![t] = 0]
        /\ UNCHANGED <<nextOffset, LEO, HWM, ISR, ReplicaLEO, caughtUp, plan,
                       visible>>
    BY DEF CompleteWaiters, logVars, isrVars
  <1>2. /\ pc' \in [Threads -> Locations]
        /\ acks' \in [Producers -> {All, 1}]
        /\ last' \in [Producers -> Offsets]
    BY <1>1, ReturnType DEF Inv
  <1>3. /\ \A s \in Threads \ {t} : pc'[s] = pc[s]
        /\ \A p \in Producers \ {t} : last'[p] = last[p]
        /\ \/ pc'[t] \in {"idle", "check"}
           \/ pc'[t] = "park" /\ last' = last
    BY <1>1, ReturnEffect DEF Inv
  <1>4. \A p \in Producers :
           /\ Appended(p)' => Appended(p) /\ last'[p] = last[p]
           /\ BeforePark(p)' => BeforePark(p) /\ last'[p] = last[p]
    BY <1>1, <1>3, ThreadKinds DEF Appended, BeforePark
  <1> QED
    BY <1>1, <1>2, <1>3, <1>4, WakeInv, ZenonT(30)

LEMMA ProduceParkInv ==
    ASSUME Inv, NEW p \in Producers, ProducePark(p)
    PROVE  Inv'
  <1> USE DEF Inv, ProducePark, logVars, isrVars
  <1>1. last[p] \in Offsets /\ last[p] < nextOffset /\ done[last[p]] = "open"
    BY DEF LeaderInv, Appended, BeforePark, TypeOK
  <1>2. TypeOK'
    BY <1>1, GotoType, ThreadKinds DEF TypeOK, Locations
  <1>3. LeaderInv'
    <2>1. \A q \in Producers :
             /\ Appended(q)' => Appended(q)
             /\ BeforePark(q)' => BeforePark(q) /\ q # p
      BY ThreadKinds DEF Appended, BeforePark, TypeOK, Goto
    <2>2. \A q \in Producers : BeforePark(q)' => last[q] # last[p]
      BY <2>1 DEF LeaderInv, Appended, BeforePark
    <2> QED
      BY <1>1, <2>1, <2>2 DEF LeaderInv, Appended, TypeOK
  <1>4. NoLostWakeup'
    <2>1. ToBeWoken(last[p])'
      BY ThreadKinds DEF ToBeWoken, TypeOK, Goto
    <2> QED
      BY <2>1, MoveKeepsWaker, ThreadKinds DEF NoLostWakeup, TypeOK
  <1>5. AckedIsCommitted'
    BY DEF AckedIsCommitted
  <1> QED
    BY <1>2, <1>3, <1>4, <1>5

LEMMA ProduceGetHWMInv ==
    ASSUME Inv, NEW p \in Producers, ProduceGetHWM(p)
    PROVE  Inv'
  <1> USE DEF Inv, ProduceGetHWM, logVars, isrVars, purgatoryVars
  <1>1. TypeOK'
    BY GotoType, ThreadKinds DEF TypeOK, Locations
  <1>2. LeaderInv'
    BY ThreadKinds DEF LeaderInv, Appended, BeforePark, TypeOK, Goto, Offsets
  <1>3. NoLostWakeup'
    <2> SUFFICES ASSUME NEW o \in waiters, o < HWM
                 PROVE  ToBeWoken(o)'
      BY DEF NoLostWakeup
    <2>1. /\ p \in Threads
          /\ pc'[p] = "drain" /\ hwm'[p] = HWM
      BY ThreadKinds DEF TypeOK, Goto
    <2> QED
      BY <2>1 DEF ToBeWoken
  <1>4. AckedIsCommitted'
    BY DEF AckedIsCommitted
  <1> QED
    BY <1>1, <1>2, <1>3, <1>4

LEMMA ProduceDrainInv ==
    ASSUME Inv, NEW p \in Producers, ProduceDrain(p)
    PROVE  Inv'
  <1>1. /\ p \in Threads
        /\ pc[p] = "drain"
        /\ CompleteUpTo(hwm[p])
        /\ Goto(p, "wait")
        /\ hwm' = [hwm EXCEPT ![p] = 0]
        /\ UNCHANGED <<nextOffset, LEO, HWM, ISR, ReplicaLEO, caughtUp, plan,
                       visible, acks, last>>
    BY ThreadKinds DEF ProduceDrain, logVars, isrVars
  <1>2. /\ pc' \in [Threads -> Locations]
        /\ acks' \in [Producers -> {All, 1}]
        /\ last' \in [Producers -> Offsets]
    BY <1>1, GotoType DEF Inv, TypeOK, Locations
  <1>3. /\ \A s \in Threads \ {p} : pc'[s] = pc[s]
        /\ pc'[p] = "wait"
    BY <1>1 DEF Inv, TypeOK, Goto
  <1>4. \A q \in Producers :
           /\ Appended(q)' => Appended(q) /\ last'[q] = last[q]
           /\ BeforePark(q)' => BeforePark(q) /\ last'[q] = last[q]
    BY <1>1, <1>3, ThreadKinds DEF Appended, BeforePark
  <1> QED
    BY <1>1, <1>2, <1>3, <1>4, WakeInv, ZenonT(30)

\* Fetches, ISR changes and time touch neither the log nor the purgatory, and
\* the threads that take them are not waking anybody.
LEMMA OtherStepsInv ==
    ASSUME Inv,
           \/ \E f \in Followers : \E upto \in Offsets : FollowerFetch(f, upto)
           \/ \E f \in Followers : LagPasses(f) \/ TickRemove(f) \/ TickAdd(f)
           \/ TickSnapshot
           \/ TickPublish
    PROVE  Inv'
  <1> USE DEF Inv, logVars, isrVars, purgatoryVars
  <1>1. UNCHANGED <<logVars, HWM, purgatoryVars, acks, last, hwm, visible>>
    BY DEF FollowerFetch, LagPasses, TickRemove, TickAdd, TickSnapshot,
           TickPublish
  <1>2. \/ UNCHANGED pc
        \/ \E t \in Threads \ Producers, l \in Locations :
              pc[t] \in {"idle", "shrink"} /\ Goto(t, l)
    <2>1. \A t \in Followers : t \in Threads \ Producers
      BY ConstantsAssumption, ThreadKinds
    <2>2. "shrink" \in Locations /\ "advance" \in Locations
      BY DEF Locations
    <2> QED
      BY <2>1, <2>2, ThreadKinds
         DEF FollowerFetch, LagPasses, TickRemove, TickAdd, TickSnapshot,
             TickPublish
  <1>3. TypeOK'
    <2>1. pc' \in [Threads -> Locations]
      BY <1>2, GotoType DEF TypeOK
    <2>2. /\ ISR' \subseteq Replicas
          /\ caughtUp' \in [Followers -> {"never", "recent", "old"}]
          /\ ReplicaLEO' \in [Followers -> Offsets \cup {NoLEO}]
      BY DEF TypeOK, FollowerFetch, LagPasses, TickRemove, TickAdd,
             TickSnapshot, TickPublish, Followers
    <2>3. plan' \in [remove : SUBSET Followers, add : SUBSET Followers]
      <3>1. CASE TickSnapshot
        BY <3>1 DEF TypeOK, TickSnapshot, Followers
      <3>2. CASE \E f \in Followers : TickRemove(f) \/ TickAdd(f)
        BY <3>2 DEF TypeOK, TickRemove, TickAdd
      <3>3. CASE UNCHANGED plan
        BY <3>3 DEF TypeOK
      <3>4. CASE \/ \E f \in Followers, upto \in Offsets : FollowerFetch(f, upto)
                 \/ \E f \in Followers : LagPasses(f)
                 \/ TickPublish
        BY <3>3, <3>4 DEF FollowerFetch, LagPasses, TickPublish
      <3> QED
        BY <3>1, <3>2, <3>4, SMTT(30)
    <2> QED
      BY <1>1, <2>1, <2>2, <2>3 DEF TypeOK
  <1>4. \A p \in Producers : pc'[p] = pc[p]
    <2>1. pc \in [Threads -> Locations]
      BY DEF TypeOK
    <2> QED
      BY <2>1, <1>2, ThreadKinds DEF Goto
  <1>5. LeaderInv'
    <2>1. \A p \in Producers : /\ Appended(p)' <=> Appended(p)
                               /\ BeforePark(p)' <=> BeforePark(p)
      BY <1>4 DEF Appended, BeforePark
    <2> QED
      BY <1>1, <2>1 DEF LeaderInv
  <1>6. NoLostWakeup'
    BY <1>1, <1>2, MoveKeepsWaker DEF NoLostWakeup, ToBeWoken
  <1>7. AckedIsCommitted'
    BY <1>1 DEF AckedIsCommitted
  <1> QED
    BY <1>3, <1>5, <1>6, <1>7

LEMMA ConsumerFetchInv ==
    ASSUME Inv, NEW c \in Consumers, ConsumerFetch(c)
    PROVE  Inv'
  <1> USE DEF Inv, ConsumerFetch, logVars, isrVars, purgatoryVars
  <1>1. TypeOK'
    BY DEF TypeOK
  <1>2. LeaderInv'
    BY DEF LeaderInv, Appended, BeforePark, TypeOK, Offsets
  <1>3. NoLostWakeup' /\ AckedIsCommitted'
    BY DEF NoLostWakeup, ToBeWoken, AckedIsCommitted
  <1> QED
    BY <1>1, <1>2, <1>3

\* FailAll forgets exactly the waiters it answers.
LEMMA FailAllEffect ==
    ASSUME Inv, FailAll
    PROVE  /\ waiters' = {}
           /\ done' \in [Offsets -> {"open", "ok", "failed"}]
           /\ \A o \in Offsets :
                 \/ done'[o] = done[o]
                 \/ o \in waiters /\ done'[o] = "failed"
  BY DEF Inv, TypeOK, FailAll

LEMMA TickCheckMinISRInv ==
    ASSUME Inv, TickCheckMinISR
    PROVE  Inv'
  <1> USE DEF Inv, TickCheckMinISR, logVars, isrVars, purgatoryVars
  <1>1. /\ waiters' \subseteq waiters
        /\ done' \in [Offsets -> {"open", "ok", "failed"}]
        /\ \A o \in waiters' : done'[o] = "open"
        /\ \A o \in Offsets :
              \/ done'[o] = done[o]
              \/ o \in waiters /\ done'[o] = "failed"
    BY FailAllEffect DEF LeaderInv, TypeOK
  <1>2. TypeOK'
    BY <1>1, GotoType, ThreadKinds DEF TypeOK, Locations
  <1>3. LeaderInv'
    <2>1. \A p \in Producers : pc'[p] = pc[p]
      BY ThreadKinds DEF Goto, TypeOK
    <2> QED
      BY <1>1, <2>1, AnswerKeepsApart DEF LeaderInv, Appended, BeforePark
  <1>4. NoLostWakeup'
    BY <1>1, MoveKeepsWaker, ThreadKinds DEF NoLostWakeup, TypeOK
  <1>5. AckedIsCommitted'
    BY <1>1 DEF AckedIsCommitted
  <1> QED
    BY <1>2, <1>3, <1>4, <1>5

LEMMA NextInv == Inv /\ [Next]_vars => Inv'
  <1> SUFFICES ASSUME Inv, [Next]_vars PROVE Inv'
    OBVIOUS
  <1>1. CASE UNCHANGED vars
    BY <1>1 DEF vars, logVars, isrVars, purgatoryVars, Inv, TypeOK, LeaderInv,
                NoLostWakeup, ToBeWoken, AckedIsCommitted, Appended, BeforePark
  <1>2. ASSUME NEW p \in Producers,
               ProduceStep(p) \/ ProduceTimeout(p)
        PROVE  Inv'
    BY <1>2, ProduceAppendInv, ProduceFinishInv, OnLeaderAppendInv,
       AdvanceHWMInv, CompleteWaitersInv, ProduceParkInv, ProduceGetHWMInv,
       ProduceDrainInv, ThreadKinds DEF ProduceStep
  <1>3. ASSUME NEW f \in Followers, FetchStep(f) \/ LagPasses(f)
        PROVE  Inv'
    BY <1>3, AdvanceHWMInv, CompleteWaitersInv, OtherStepsInv, ThreadKinds
       DEF FetchStep
  <1>4. CASE TickStep
    BY <1>4, AdvanceHWMInv, CompleteWaitersInv, OtherStepsInv,
       TickCheckMinISRInv, ThreadKinds DEF TickStep
  <1> QED
    BY <1>1, <1>2, <1>3, <1>4, ProduceCheckInv, OtherStepsInv,
       ConsumerFetchInv DEF Next

(***************************************************************************)
(* The theorems.                                                           *)
(***************************************************************************)

\* The invariant holds in every reachable state.
THEOREM Invariance == Spec => []Inv
  BY InitInv, NextInv, PTL DEF Spec

\* Every variable keeps its type: in particular LEO never passes the bound on
\* the log, because OnLeaderAppend is given an offset that was appended.
THEOREM TypeCorrect == Spec => []TypeOK
  BY Invariance, PTL DEF Inv

\* A producer that is told its acks=-1 request succeeded has its records below
\* the high-watermark.
THEOREM AcksAreCommitted == Spec => []AckedIsCommitted
  BY Invariance, PTL DEF Inv

\* AdvanceHWM and the handler's Add and CompleteUpTo(GetHWM()) between them
\* never leave a committed request parked with nobody about to wake it.
THEOREM NoWakeupIsLost == Spec => []NoLostWakeup
  BY Invariance, PTL DEF Inv

\* The bookkeeping of offsets and waiters.
THEOREM BookkeepingHolds == Spec => []LeaderInv
  BY Invariance, PTL DEF Inv

\* The steps that answer waiters, as CompleteUpTo and as FailAll do.
Acknowledges ==
    /\ UNCHANGED <<nextOffset, HWM, visible>>
    /\ \A o \in Offsets :
          \/ done'[o] = done[o]
          \/ o \in waiters /\ done'[o] = "ok" /\ o < HWM

Refuses ==
    /\ UNCHANGED <<nextOffset, HWM, visible>>
    /\ \A o \in Offsets :
          \/ done'[o] = done[o]
          \/ o \in waiters /\ done'[o] = "failed"

\* A step changes an answer by CompleteUpTo or FailAll only.
LEMMA AnswerSteps ==
    ASSUME Inv, [Next]_vars
    PROVE  UNCHANGED done \/ Acknowledges \/ Refuses
  <1>1. ASSUME NEW t \in Threads,
               \/ CompleteWaiters(t)
               \/ t \in Producers /\ ProduceDrain(t)
        PROVE  Acknowledges
    <2>1. /\ hwm[t] \in Offsets /\ hwm[t] <= HWM
          /\ CompleteUpTo(hwm[t])
          /\ UNCHANGED <<nextOffset, HWM, visible>>
      BY <1>1 DEF CompleteWaiters, ProduceDrain, Inv, LeaderInv, TypeOK, logVars
    <2> QED
      BY <2>1, CompleteUpToEffect DEF Acknowledges
  <1>2. CASE TickCheckMinISR
    BY <1>2, FailAllEffect DEF Refuses, TickCheckMinISR, logVars, purgatoryVars
  <1>3. CASE /\ ~TickCheckMinISR
             /\ \A t \in Threads :
                   ~CompleteWaiters(t) /\ ~(t \in Producers /\ ProduceDrain(t))
    <2>1. UNCHANGED done
      BY <1>3, ThreadKinds
         DEF Next, ProduceStep, FetchStep, TickStep, ProduceCheck,
             ProduceAppend, ProduceAppendFails, OnLeaderAppend, AdvanceHWM,
             ProducePark, ProduceGetHWM, ProduceAnswered, ProduceTimeout,
             FollowerFetch, LagPasses, ConsumerFetch, TickSnapshot, TickRemove,
             TickAdd, TickPublish, vars, purgatoryVars
    <2> QED
      BY <2>1
  <1> QED
    BY <1>1, <1>2, <1>3

\* A waiter's Done channel is written once: no answer is ever replaced.
THEOREM AnswersAreFinal == Spec => AnswerIsFinal
  <1>1. Inv /\ [Next]_vars =>
           [\A o \in Offsets : done[o] # "open" => done'[o] = done[o]]_vars
    BY AnswerSteps DEF Acknowledges, Refuses, Inv, LeaderInv
  <1> QED
    BY <1>1, Invariance, PTL DEF Spec, AnswerIsFinal

\* Every step of the partition is a step of AckedLog or changes nothing there.
LEMMA StepSimulates ==
    ASSUME Inv, [Next]_vars
    PROVE  [Abs!Next]_(Abs!absVars)
  <1> USE DEF Abs!absVars, Abs!Next
  <1>1. CASE done' # done
    <2>1. CASE Acknowledges
      <3>1. Abs!Acknowledge
        BY <2>1 DEF Acknowledges, Abs!Acknowledge, Inv, LeaderInv
      <3> QED
        BY <3>1
    <2>2. CASE Refuses
      <3>1. Abs!Refuse
        BY <2>2 DEF Refuses, Abs!Refuse, Inv, LeaderInv
      <3> QED
        BY <3>1
    <2> QED
      BY <1>1, <2>1, <2>2, AnswerSteps
  <1>2. CASE done' = done
    <2>1. ASSUME NEW p \in Producers, NEW n \in 1 .. MaxBatch,
                 ProduceAppend(p, n)
          PROVE  Abs!Grow
      BY <1>2, <2>1, ConstantsAssumption
         DEF Abs!Grow, ProduceAppend, Inv, TypeOK, Offsets
    <2>2. ASSUME NEW t \in Threads, AdvanceHWM(t)
          PROVE  Abs!Commit \/ UNCHANGED Abs!absVars
      <3>1. UNCHANGED <<nextOffset, visible>>
        BY <2>2 DEF AdvanceHWM, logVars
      <3>2. HWM' = HWM \/ (HWM' \in 0 .. LEO /\ HWM' > HWM)
        BY <2>2 DEF AdvanceHWM
      <3> QED
        BY <1>2, <3>1, <3>2, ConstantsAssumption
           DEF Abs!Commit, Inv, LeaderInv, TypeOK, Offsets
    <2>3. ASSUME NEW c \in Consumers, ConsumerFetch(c)
          PROVE  Abs!Serve(c)
      <3>1. /\ visible' = [visible EXCEPT ![c] = HWM]
            /\ visible'[c] = HWM /\ visible[c] <= HWM
            /\ HWM \in Int /\ visible[c] \in Int
            /\ UNCHANGED <<nextOffset, HWM>>
        BY <2>3, ConstantsAssumption
           DEF ConsumerFetch, logVars, Inv, LeaderInv, TypeOK, Offsets
      <3>2. visible'[c] >= visible[c] /\ visible'[c] <= HWM
        BY <3>1
      <3>3. visible' = [visible EXCEPT ![c] = visible'[c]]
        BY <3>1, Zenon
      <3> QED
        BY <1>2, <3>1, <3>2, <3>3 DEF Abs!Serve
    <2>4. CASE UNCHANGED <<nextOffset, HWM, visible>>
      BY <1>2, <2>4
    <2> QED
      BY <2>1, <2>2, <2>3, <2>4, ThreadKinds
         DEF Next, ProduceStep, FetchStep, TickStep, ProduceCheck,
             ProduceAppendFails, OnLeaderAppend, CompleteWaiters,
             ProducePark, ProduceGetHWM, ProduceDrain, ProduceAnswered,
             ProduceTimeout, FollowerFetch, LagPasses, TickSnapshot,
             TickRemove, TickAdd, TickPublish, TickCheckMinISR, vars, logVars
  <1> QED
    BY <1>1, <1>2

\* The partition implements AckedLog.
THEOREM Refinement == Spec => ImplementsAckedLog
  <1>1. Init => Abs!Init
    BY DEF Init, Abs!Init
  <1>2. Inv /\ [Next]_vars => [Abs!Next]_(Abs!absVars)
    BY StepSimulates
  <1> QED
    BY <1>1, <1>2, Invariance, PTL DEF Spec, ImplementsAckedLog, Abs!Spec

\* The high-watermark only moves to where every in-sync follower has fetched.
THEOREM CommitsNeedISR == Spec => CommitNeedsISR
  <1>1. ASSUME Inv, [Next]_vars, HWM' # HWM
        PROVE  /\ HWM' <= nextOffset
               /\ \A f \in ISR \ {Leader} : ReplicaLEO[f] >= HWM'
    <2>1. PICK t \in Threads : AdvanceHWM(t)
      BY <1>1, ThreadKinds
         DEF Next, ProduceStep, FetchStep, TickStep, ProduceCheck,
             ProduceAppend, ProduceAppendFails, OnLeaderAppend,
             CompleteWaiters, ProducePark, ProduceGetHWM, ProduceDrain,
             ProduceAnswered, ProduceTimeout, FollowerFetch, LagPasses,
             ConsumerFetch, TickSnapshot, TickRemove, TickAdd, TickPublish,
             TickCheckMinISR, vars
    <2>2. HWM' \in 0 .. LEO /\ HWM' > HWM /\ ~Behind(HWM')
      BY <1>1, <2>1 DEF AdvanceHWM, NewHWM
    <2>3. \A f \in ISR \ {Leader} : ReplicaLEO[f] \in Offsets \cup {NoLEO}
      BY <1>1 DEF Inv, TypeOK, Followers
    <2> QED
      BY <1>1, <2>2, <2>3, ConstantsAssumption
         DEF Behind, Inv, LeaderInv, TypeOK, Offsets, NoLEO
  <1>2. Inv /\ [Next]_vars =>
           [HWM' # HWM =>
               /\ HWM' <= nextOffset
               /\ \A f \in ISR \ {Leader} : ReplicaLEO[f] >= HWM']_vars
    BY <1>1
  <1> QED
    BY <1>2, Invariance, PTL DEF Spec, CommitNeedsISR
=============================================================================
