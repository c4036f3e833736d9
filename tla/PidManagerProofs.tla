-------------------------- MODULE PidManagerProofs --------------------------
(***************************************************************************)
(* For every number of requests, block size and pattern of crashes, the    *)
(* producer ids given out were leased before, and they are unique as long  *)
(* as the metadata log has not outgrown its first segment and Replay can   *)
(* read it.                                                                *)
(***************************************************************************)
EXTENDS PidManager, TLAPS

\* Replay sees the whole log.
ReplayComplete == MaxRecords <= SegmentRecords /\ ~ReadErrors

\* m is at or above every lease in the log.
AboveLog(m) == \A i \in 1 .. Len(log) : log[i] <= m

\* The allocator's memory agrees with the log: it is at the latest lease, or
\* one behind while a lease is in progress.
MemoryInv ==
    /\ nextBase <= blockEnd
    /\ blockEnd = 0 \/ \E i \in 1 .. Len(log) : log[i] = blockEnd
    /\ Len(log) <= MaxRecords
    /\ mu # NoRequest => up /\ status[mu] \in {"leasing", "leased"}
    /\ \A r \in Requests :
          status[r] \in {"leasing", "leased"} => mu = r /\ nextBase = blockEnd
    /\ \A r \in Requests :
          status[r] = "leased" => \E i \in 1 .. Len(log) : log[i] = blockEnd + Step

\* PIDs given out are below the next one, if recoveries saw all leases.
FreshInv ==
    ReplayComplete => /\ up => \A r \in Requests : pid[r] # NoPid => pid[r] < nextBase
                      /\ UniquePids

Inv == TypeOK /\ MemoryInv /\ LeasedBeforeUse /\ FreshInv

LEMMA InitInv == Init => Inv
  BY ConstantsAssumption
     DEF Init, Inv, TypeOK, MemoryInv, LeasedBeforeUse, FreshInv, UniquePids, NoPid,
         Leased

\* Appending to the log keeps what is known of its records.
LEMMA AppendKeeps ==
    ASSUME TypeOK, NEW x \in Nat, log' = Append(log, x)
    PROVE  /\ log' \in Seq(Nat)
           /\ Len(log') = Len(log) + 1
           /\ log'[Len(log) + 1] = x
           /\ \A i \in 1 .. Len(log) : log'[i] = log[i]
  BY DEF TypeOK

LEMMA AppendKeepsLeases ==
    ASSUME TypeOK, NEW x \in Nat, log' = Append(log, x)
    PROVE  /\ \A p : Leased(p) => Leased(p)'
           /\ \A e : (\E i \in 1 .. Len(log) : log[i] = e)
                    => \E i \in 1 .. Len(log') : log'[i] = e
  <1>1. \A i \in 1 .. Len(log) : i \in 1 .. Len(log') /\ log'[i] = log[i]
    BY AppendKeeps DEF TypeOK
  <1> QED
    BY <1>1 DEF Leased

\* Every PID below a leased end is leased.
LEMMA BelowLease ==
    ASSUME TypeOK, NEW p \in Int, NEW e \in Nat, p < e,
           \E i \in 1 .. Len(log) : log[i] = e
    PROVE  Leased(p)
  BY DEF Leased

LEMMA InBlock ==
    ASSUME NEW a \in Int, NEW b \in Int, NEW p \in a .. b - 1
    PROVE  p \in Int /\ p < b
  OBVIOUS

LEMMA IssueInv ==
    ASSUME Inv, NEW r \in Requests, NEW base \in Nat,
           up, UNCHANGED <<log, up>>, Issue(r, base),
           mu \in {r, NoRequest}, base = nextBase, Leased(base),
           blockEnd' \in Nat, base < blockEnd',
           \E i \in 1 .. Len(log) : log[i] = blockEnd'
    PROVE  Inv'
  <1> USE DEF Inv
  <1>1. TypeOK'
    BY DEF TypeOK, Issue, NoPid
  <1>2. MemoryInv'
    <2>1. \A s \in Requests : status'[s] \notin {"leasing", "leased"}
      BY ConstantsAssumption DEF TypeOK, MemoryInv, Issue
    <2> QED
      BY <2>1 DEF MemoryInv, Issue, TypeOK
  <1>3. LeasedBeforeUse'
    <2>1. \A s \in Requests : pid'[s] # NoPid => Leased(pid'[s])
      <3> TAKE s \in Requests
      <3>1. pid'[s] = IF s = r THEN base ELSE pid[s]
        BY DEF TypeOK, Issue
      <3> QED
        BY <3>1 DEF LeasedBeforeUse
    <2>2. \A p \in nextBase' .. blockEnd' - 1 : Leased(p)
      <3>0. nextBase' \in Int /\ blockEnd' \in Int
        BY DEF Issue
      <3> TAKE p \in nextBase' .. blockEnd' - 1
      <3>1. p \in Int /\ p < blockEnd'
        BY <3>0, InBlock
      <3> QED
        BY <3>1, BelowLease
    <2> QED
      BY <2>1, <2>2 DEF LeasedBeforeUse, Leased
  <1>4. FreshInv'
    <2> SUFFICES ASSUME ReplayComplete
                 PROVE  /\ \A s \in Requests : pid'[s] # NoPid => pid'[s] < nextBase'
                        /\ UniquePids'
      BY DEF FreshInv
    <2>1. /\ \A s \in Requests : pid'[s] = IF s = r THEN base ELSE pid[s]
          /\ nextBase' = base + 1
      BY DEF TypeOK, Issue
    <2>2. \A s \in Requests : pid[s] # NoPid => pid[s] \in Nat /\ pid[s] < base
      BY DEF FreshInv, TypeOK
    <2>3. \A s \in Requests : pid'[s] # NoPid => pid'[s] < nextBase'
      BY <2>1, <2>2
    <2>4. ASSUME NEW s \in Requests, NEW t \in Requests, s # t, pid'[s] # NoPid
          PROVE  pid'[s] # pid'[t]
      <3>1. CASE s # r /\ t # r
        BY <2>1, <2>4, <3>1 DEF FreshInv, UniquePids
      <3>2. CASE s = r
        BY <2>1, <2>2, <2>4, <3>2 DEF NoPid
      <3>3. CASE t = r
        BY <2>1, <2>2, <2>4, <3>3
      <3> QED
        BY <3>1, <3>2, <3>3
    <2> QED
      BY <2>3, <2>4 DEF UniquePids
  <1> QED
    BY <1>1, <1>2, <1>3, <1>4

LEMMA AllocateOneInv ==
    ASSUME Inv, NEW r \in Requests, AllocateOne(r)
    PROVE  Inv'
  <1> USE DEF Inv
  <1>1. CASE nextBase < blockEnd /\ Issue(r, nextBase)
    <2>1. /\ up /\ UNCHANGED <<log, up, blockEnd>>
          /\ nextBase \in Nat /\ blockEnd \in Nat
          /\ mu = NoRequest
      BY DEF AllocateOne, TypeOK
    <2>2. \E i \in 1 .. Len(log) : log[i] = blockEnd
      BY <1>1, <2>1 DEF MemoryInv
    <2>3. Leased(nextBase)
      BY <1>1, <2>1, <2>2, BelowLease
    <2> QED
      BY <1>1, <2>1, <2>2, <2>3, IssueInv
  <1>2. CASE /\ nextBase >= blockEnd
             /\ mu' = r
             /\ status' = [status EXCEPT ![r] = "leasing"]
             /\ UNCHANGED <<nextBase, pid>>
    <2>1. /\ up /\ mu = NoRequest
          /\ UNCHANGED <<log, up, blockEnd>>
      BY DEF AllocateOne
    <2>2. TypeOK'
      BY <1>2, <2>1 DEF TypeOK
    <2>3. MemoryInv'
      BY <1>2, <2>1, ConstantsAssumption DEF TypeOK, MemoryInv
    <2>4. LeasedBeforeUse' /\ FreshInv'
      BY <1>2, <2>1 DEF LeasedBeforeUse, Leased, FreshInv, UniquePids
    <2> QED
      BY <2>2, <2>3, <2>4
  <1> QED
    BY <1>1, <1>2 DEF AllocateOne

\* A record is appended while the allocator's memory stays as it is.
LEMMA LogGrowsInv ==
    ASSUME Inv, NEW x \in Nat, Len(log) < MaxRecords, log' = Append(log, x),
           UNCHANGED <<up, pidVars, pid>>,
           mu' \in Requests \cup {NoRequest},
           status' \in [Requests -> {"new", "leasing", "leased", "done", "failed"}],
           mu' # NoRequest => up /\ status'[mu'] \in {"leasing", "leased"},
           \A r \in Requests : status'[r] \in {"leasing", "leased"} =>
              mu' = r /\ nextBase = blockEnd,
           \A r \in Requests : status'[r] = "leased" =>
              status[r] = "leased" \/ x = blockEnd + Step
    PROVE  Inv'
  <1> USE DEF Inv, pidVars
  <1>1. TypeOK'
    BY AppendKeeps DEF TypeOK
  <1>2. MemoryInv'
    <2>1. Len(log') <= MaxRecords
      BY AppendKeeps, ConstantsAssumption DEF TypeOK
    <2>2. \E i \in 1 .. Len(log') : log'[i] = x
      BY AppendKeeps DEF TypeOK
    <2>3. blockEnd = 0 \/ \E i \in 1 .. Len(log') : log'[i] = blockEnd
      BY AppendKeepsLeases DEF MemoryInv
    <2>4. \A r \in Requests : status'[r] = "leased" =>
             \E i \in 1 .. Len(log') : log'[i] = blockEnd + Step
      BY <2>2, AppendKeepsLeases DEF MemoryInv
    <2> QED
      BY <2>1, <2>3, <2>4 DEF MemoryInv
  <1>3. LeasedBeforeUse'
    <2>1. \A p : Leased(p) => Leased(p)'
      BY AppendKeepsLeases
    <2> QED
      BY <2>1 DEF LeasedBeforeUse
  <1>4. FreshInv'
    BY DEF FreshInv, UniquePids
  <1> QED
    BY <1>1, <1>2, <1>3, <1>4

LEMMA LeaseTakeInv ==
    ASSUME Inv, NEW r \in Requests, LeaseTake(r)
    PROVE  Inv'
  <1> USE DEF Inv
  <1>1. /\ status[r] = "leased" /\ UNCHANGED <<log, up>>
        /\ blockEnd' = blockEnd + Step
        /\ mu = r /\ nextBase = blockEnd /\ up /\ nextBase \in Nat
    BY ConstantsAssumption DEF LeaseTake, MemoryInv, TypeOK
  <1>2. Issue(r, nextBase)
    BY <1>1 DEF LeaseTake
  <1>3. /\ blockEnd' \in Nat /\ nextBase < blockEnd'
        /\ \E i \in 1 .. Len(log) : log[i] = blockEnd'
    BY <1>1, ConstantsAssumption DEF MemoryInv, TypeOK
  <1>4. Leased(nextBase)
    BY <1>1, <1>3, BelowLease
  <1> QED
    BY <1>1, <1>2, <1>3, <1>4, IssueInv

\* A request that fails before its lease is taken leaves the block alone.
LEMMA LeaseFailsInv ==
    ASSUME Inv, NEW r \in Requests, LeaseFails(r)
    PROVE  Inv'
  <1>1. /\ mu' = NoRequest
        /\ mu = r
        /\ status' = [status EXCEPT ![r] = "failed"]
        /\ UNCHANGED <<up, pidVars, pid>>
    BY DEF Inv, LeaseFails, MemoryInv
  <1>2. \A s \in Requests : status'[s] \notin {"leasing", "leased"}
    BY <1>1, ConstantsAssumption DEF Inv, TypeOK, MemoryInv
  <1>3. status' \in [Requests -> {"new", "leasing", "leased", "done", "failed"}]
    BY <1>1 DEF Inv, TypeOK
  <1>4. CASE Len(log) < MaxRecords /\ log' = Append(log, blockEnd + Step)
    BY <1>1, <1>2, <1>3, <1>4, LogGrowsInv, ConstantsAssumption
       DEF Inv, TypeOK
  <1>5. CASE UNCHANGED log
    BY <1>1, <1>2, <1>3, <1>5, ConstantsAssumption
       DEF Inv, TypeOK, MemoryInv, LeasedBeforeUse, Leased, FreshInv, UniquePids,
           pidVars
  <1> QED
    BY <1>4, <1>5 DEF LeaseFails

LEMMA LeaseAppendInv ==
    ASSUME Inv, NEW r \in Requests, LeaseAppend(r)
    PROVE  Inv'
  <1>1. /\ mu = r /\ up /\ nextBase = blockEnd
        /\ Len(log) < MaxRecords /\ log' = Append(log, blockEnd + Step)
        /\ UNCHANGED <<up, pidVars, mu, pid>>
        /\ status' = [status EXCEPT ![r] = "leased"]
    BY ConstantsAssumption DEF Inv, LeaseAppend, MemoryInv
  <1>2. /\ status' \in [Requests -> {"new", "leasing", "leased", "done", "failed"}]
        /\ status'[r] = "leased"
        /\ \A s \in Requests : status'[s] \in {"leasing", "leased"} => s = r
    BY <1>1 DEF Inv, TypeOK, MemoryInv
  <1>3. blockEnd + Step \in Nat
    BY ConstantsAssumption DEF Inv, TypeOK
  <1> QED
    BY <1>1, <1>2, <1>3, LogGrowsInv

LEMMA OtherAppendInv ==
    ASSUME Inv, OtherAppend
    PROVE  Inv'
  BY LogGrowsInv DEF Inv, OtherAppend, TypeOK, MemoryInv

LEMMA CrashInv ==
    ASSUME Inv, Crash
    PROVE  Inv'
  <1> USE DEF Inv, Crash
  <1>1. \A r \in Requests : status'[r] \notin {"leasing", "leased"}
    BY DEF TypeOK
  <1>2. TypeOK'
    BY DEF TypeOK
  <1>3. MemoryInv'
    BY <1>1 DEF MemoryInv, TypeOK
  <1>4. LeasedBeforeUse' /\ FreshInv'
    BY DEF LeasedBeforeUse, Leased, FreshInv, UniquePids
  <1> QED
    BY <1>2, <1>3, <1>4

\* The one step that needs Replay to see the whole log: all PIDs given out are
\* below a lease in the log, hence below maxSeen.
LEMMA RestartInv ==
    ASSUME Inv, Restart
    PROVE  Inv'
  <1> USE DEF Inv
  <1>1. PICK m \in {0} \cup {log[i] : i \in 1 .. Len(log)} :
           MaxSeen(m) /\ nextBase' = m /\ blockEnd' = m
    BY DEF Restart
  <1>2. up' /\ ~up /\ UNCHANGED <<log, mu, status, pid>>
    BY DEF Restart
  <1>3. m \in Nat
    BY DEF TypeOK
  <1>4. TypeOK'
    BY <1>1, <1>2, <1>3 DEF TypeOK
  <1>5. MemoryInv'
    <2>1. mu = NoRequest
      BY <1>2 DEF MemoryInv
    <2>2. m = 0 \/ \E i \in 1 .. Len(log) : log[i] = m
      OBVIOUS
    <2>3. \A r \in Requests : status[r] \notin {"leasing", "leased"}
      BY <2>1, ConstantsAssumption DEF MemoryInv
    <2> QED
      BY <1>1, <1>2, <1>3, <2>1, <2>2, <2>3 DEF MemoryInv
  <1>6. LeasedBeforeUse'
    BY <1>1, <1>2, <1>3 DEF LeasedBeforeUse, Leased
  <1>7. FreshInv'
    <2> SUFFICES ASSUME ReplayComplete
                 PROVE  (\A r \in Requests : pid[r] # NoPid => pid[r] < m) /\ UniquePids
      BY <1>1, <1>2 DEF FreshInv, UniquePids
    <2>1. AboveLog(m)
      BY <1>1, <1>3, ConstantsAssumption
         DEF MaxSeen, AboveLog, Replayed, ReplayComplete, TypeOK, MemoryInv
    <2>2. \A r \in Requests : pid[r] # NoPid => pid[r] < m
      BY <1>3, <2>1 DEF LeasedBeforeUse, Leased, AboveLog, TypeOK, NoPid
    <2> QED
      BY <2>2 DEF FreshInv
  <1> QED
    BY <1>4, <1>5, <1>6, <1>7

LEMMA NextInv == Inv /\ [Next]_vars => Inv'
  <1>1. Inv /\ UNCHANGED vars => Inv'
    BY DEF vars, pidVars, Inv, TypeOK, MemoryInv, LeasedBeforeUse, Leased,
           FreshInv, UniquePids
  <1> QED
    BY <1>1, AllocateOneInv, LeaseAppendInv, LeaseFailsInv, LeaseTakeInv,
       OtherAppendInv, CrashInv, RestartInv DEF Next

\* The allocator's invariant, in every reachable state.
THEOREM Invariance == Spec => []Inv
  BY InitInv, NextInv, PTL DEF Spec

\* The allocator's memory and its answers keep their types.
THEOREM TypeCorrect == Spec => []TypeOK
  BY Invariance, PTL DEF Inv

\* AllocateOne answers from leases that leaseNextBlockLocked has persisted, after
\* any crashes, however much of the log Replay sees and whatever appends fail.
THEOREM LeasesPrecedeUse == Spec => []LeasedBeforeUse
  BY Invariance, PTL DEF Inv

\* A controller crash never lets recoverPidManager and AllocateOne give out a
\* PID twice, while the metadata log fits its first segment and is readable.
THEOREM PidsAreUnique ==
    ASSUME ReplayComplete
    PROVE  Spec => []UniquePids
  <1>1. Inv => UniquePids
    BY DEF Inv, FreshInv
  <1> QED
    BY <1>1, Invariance, PTL
=============================================================================
