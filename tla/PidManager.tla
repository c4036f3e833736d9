----------------------------- MODULE PidManager -----------------------------
(***************************************************************************)
(* The controller's producer ids: InitProducerId handlers that allocate    *)
(* from a leased block, the ProducerIdsRecord that persists each lease in  *)
(* the cluster metadata log, and the recovery of the allocator from that   *)
(* log when the controller restarts. What was written survives a crash of  *)
(* the process; memory does not.                                           *)
(***************************************************************************)
EXTENDS Integers, Sequences

CONSTANTS
    Requests,        \* InitProducerId requests without a transactional id
    NoRequest,       \* m.mu is free
    Step,            \* PidManager.step, the size of a block
    SegmentRecords,  \* records after which the log's first segment is full
    ReadErrors,      \* may Replay fail to read the log?
    MaxRecords       \* bound: records in the metadata log

ASSUME ConstantsAssumption ==
    /\ NoRequest \notin Requests
    /\ Step \in Nat \ {0}
    /\ SegmentRecords \in Nat \ {0}
    /\ ReadErrors \in BOOLEAN
    /\ MaxRecords \in Nat

VARIABLES
    log,       \* NextProducerId of each metadata record, 0 for other records
    up,        \* is the controller running?
    nextBase,  \* next PID to issue
    blockEnd,  \* exclusive end of the current lease
    mu,        \* the request that holds m.mu while it leases a block
    status,    \* per request, how far its handler is
    pid        \* per request, the ProducerId it is answered with

pidVars == <<nextBase, blockEnd>>
vars == <<log, up, pidVars, mu, status, pid>>

NoPid == -1

TypeOK ==
    /\ log \in Seq(Nat)
    /\ up \in BOOLEAN
    /\ nextBase \in Nat
    /\ blockEnd \in Nat
    /\ mu \in Requests \cup {NoRequest}
    /\ status \in [Requests -> {"new", "leasing", "leased", "done", "failed"}]
    /\ pid \in [Requests -> Nat \cup {NoPid}]

\* A first start on an empty log directory.
Init ==
    /\ log = <<>>
    /\ up = TRUE
    /\ nextBase = 0
    /\ blockEnd = 0
    /\ mu = NoRequest
    /\ status = [r \in Requests |-> "new"]
    /\ pid = [r \in Requests |-> NoPid]

(***************************************************************************)
(* HandleInitProducerIdApi.                                                *)
(***************************************************************************)

\* r is answered with the next PID, and m.mu is released.
Issue(r, base) ==
    /\ pid' = [pid EXCEPT ![r] = base]
    /\ nextBase' = base + 1
    /\ status' = [status EXCEPT ![r] = "done"]
    /\ mu' = NoRequest

\* AllocateOne takes m.mu; unless the block is used up that is all.
AllocateOne(r) ==
    /\ up
    /\ mu = NoRequest
    /\ status[r] = "new"
    /\ \/ /\ nextBase < blockEnd
          /\ Issue(r, nextBase)
       \/ /\ nextBase >= blockEnd
          /\ mu' = r
          /\ status' = [status EXCEPT ![r] = "leasing"]
          /\ UNCHANGED <<nextBase, pid>>
    /\ UNCHANGED <<log, up, blockEnd>>

\* Mutant of LeaseAppend: the start of the new block is recorded.
LeaseAppendBase(r) ==
    /\ status[r] = "leasing"
    /\ Len(log) < MaxRecords
    /\ log' = Append(log, blockEnd)
    /\ status' = [status EXCEPT ![r] = "leased"]
    /\ UNCHANGED <<up, pidVars, mu, pid>>

\* leaseNextBlockLocked persists the end of the new block ...
LeaseAppend(r) ==
    /\ status[r] = "leasing"
    /\ Len(log) < MaxRecords
    /\ log' = Append(log, blockEnd + Step)
    /\ status' = [status EXCEPT ![r] = "leased"]
    /\ UNCHANGED <<up, pidVars, mu, pid>>

\* ... or fails to. The record is on disk nevertheless when only the index
\* entry could not be written. KAFKA_STORAGE_ERROR.
LeaseFails(r) ==
    /\ status[r] = "leasing"
    /\ \/ UNCHANGED log
       \/ Len(log) < MaxRecords /\ log' = Append(log, blockEnd + Step)
    /\ status' = [status EXCEPT ![r] = "failed"]
    /\ mu' = NoRequest
    /\ UNCHANGED <<up, pidVars, pid>>

\* The rest of leaseNextBlockLocked and of AllocateOne: only now is the block
\* in memory and a PID of it given out.
LeaseTake(r) ==
    /\ status[r] = "leased"
    /\ blockEnd' = blockEnd + Step
    /\ Issue(r, IF nextBase < blockEnd THEN blockEnd ELSE nextBase)
    /\ UNCHANGED <<log, up>>

\* MetadataLog.Append of a broker, topic or partition record.
OtherAppend ==
    /\ up
    /\ Len(log) < MaxRecords
    /\ log' = Append(log, 0)
    /\ UNCHANGED <<up, pidVars, mu, status, pid>>

(***************************************************************************)
(* The controller's process ends and starts again.                         *)
(***************************************************************************)

\* Handlers that have not answered never will.
Crash ==
    /\ up
    /\ up' = FALSE
    /\ nextBase' = 0
    /\ blockEnd' = 0
    /\ mu' = NoRequest
    /\ status' = [r \in Requests |->
                    IF status[r] \in {"leasing", "leased"} THEN "failed"
                                                           ELSE status[r]]
    /\ UNCHANGED <<log, pid>>

\* Replay reads one region from offset 0, which ends with the first segment.
Replayed == {i \in 1 .. Len(log) : i <= SegmentRecords}

\* recoverPidManager's maxSeen, 0 when Replay returned an error.
MaxSeen(m) ==
    \/ /\ \A i \in Replayed : log[i] <= m
       /\ m = 0 \/ \E i \in Replayed : log[i] = m
    \/ ReadErrors /\ m = 0

\* Mutants of Restart: only the end of the block is seeded, or the PID before.
RestartEndOnly ==
    /\ ~up
    /\ up' = TRUE
    /\ \E m \in {0} \cup {log[i] : i \in 1 .. Len(log)} :
          MaxSeen(m) /\ nextBase' = 0 /\ blockEnd' = m
    /\ UNCHANGED <<log, mu, status, pid>>

RestartBefore ==
    /\ ~up
    /\ up' = TRUE
    /\ \E m \in {0} \cup {log[i] : i \in 1 .. Len(log)} :
          MaxSeen(m) /\ nextBase' = m - 1 /\ blockEnd' = m
    /\ UNCHANGED <<log, mu, status, pid>>

\* recoverPidManager and SeedFromLog, on a new PidManager.
Restart ==
    /\ ~up
    /\ up' = TRUE
    /\ \E m \in {0} \cup {log[i] : i \in 1 .. Len(log)} :
          /\ MaxSeen(m)
          /\ nextBase' = m
          /\ blockEnd' = m
    /\ UNCHANGED <<log, mu, status, pid>>

Next ==
    \/ \E r \in Requests :
          \/ AllocateOne(r)
          \/ LeaseAppend(r)
          \/ LeaseFails(r)
          \/ LeaseTake(r)
    \/ OtherAppend
    \/ Crash
    \/ Restart

Spec == Init /\ [][Next]_vars

(***************************************************************************)
(* Properties.                                                             *)
(***************************************************************************)

\* No two InitProducerId requests are answered with the same PID, however the
\* controller crashes between persisting a lease, taking it and answering.
UniquePids ==
    \A r, s \in Requests : r # s /\ pid[r] # NoPid => pid[r] # pid[s]

\* Persistence before reply: every PID that was given out, and every PID that
\* AllocateOne can give out without leasing, is below a lease in the log.
Leased(p) == \E i \in 1 .. Len(log) : p < log[i]

LeasedBeforeUse ==
    /\ \A r \in Requests : pid[r] # NoPid => Leased(pid[r])
    /\ \A p \in nextBase .. blockEnd - 1 : Leased(p)
=============================================================================
