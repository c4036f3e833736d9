------------------------------ MODULE RecordLog ------------------------------
(***************************************************************************)
(* What a partition's log promises until a write to its disk fails half    *)
(* way: a sequence of batches without gaps or overlaps that appends extend *)
(* at the end and that nothing else changes, restarts included.            *)
(***************************************************************************)
EXTENDS Integers, Sequences

VARIABLES
    entries,  \* the batches in the log
    intact    \* has no write failed half way?

absVars == <<entries, intact>>

End ==
    IF entries = <<>> THEN 0
    ELSE entries[Len(entries)].base + entries[Len(entries)].n

Init == entries = <<>> /\ intact = TRUE

Extend ==
    /\ intact = TRUE
    /\ UNCHANGED intact
    /\ Len(entries') = Len(entries) + 1
    /\ SubSeq(entries', 1, Len(entries)) = entries
    /\ entries'[Len(entries')].base = End

\* After a failed write there is no promise.
Fail == intact' = FALSE

Next == Extend \/ Fail

Spec == Init /\ [][Next]_absVars
=============================================================================
