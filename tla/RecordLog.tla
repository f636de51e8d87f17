----------------------------- MODULE RecordLog -----------------------------
(***************************************************************************)
(* What a Riegeli file promises its user, with no chunks and no blocks: an *)
(* append-only log of records.  Records enter the log in order; a prefix   *)
(* of the log is in the file, where readers find it; a flush succeeds only *)
(* when all of the log is in the file.  After an error the file keeps the  *)
(* prefix it had: nothing is published any more, and nothing is taken back *)
(* or reordered.                                                           *)
(***************************************************************************)
EXTENDS Naturals, Sequences

VARIABLES
    log,      \* records accepted, in order
    visible,  \* records a reader of the file finds
    durable,  \* how many were visible at the last successful flush
    state     \* "open", "failed", "closed"

logVars == <<log, visible, durable, state>>

Prefixes(s) == {SubSeq(s, 1, n) : n \in 0 .. Len(s)}

Init == log = <<>> /\ visible = <<>> /\ durable = 0 /\ state = "open"

Accept ==
    /\ state = "open"
    /\ log' = Append(log, Len(log) + 1)
    /\ UNCHANGED <<visible, durable, state>>

\* A chunk becomes complete: more of the log is in the file.
Publish ==
    /\ state = "open"
    /\ visible' \in Prefixes(log)
    /\ Len(visible') > Len(visible)
    /\ UNCHANGED <<log, durable, state>>

Flush ==
    /\ state = "open"
    /\ visible = log
    /\ durable' = Len(log)
    /\ UNCHANGED <<log, visible, state>>

Fail ==
    /\ state = "open"
    /\ state' = "failed"
    /\ UNCHANGED <<log, visible, durable>>

\* Closing flushes; a failed log is not closed, it stays failed.
Close ==
    /\ state = "open"
    /\ visible = log
    /\ durable' = Len(log)
    /\ state' = "closed"
    /\ UNCHANGED <<log, visible>>

Next == Accept \/ Publish \/ Flush \/ Fail \/ Close

Spec == Init /\ [][Next]_logVars
=============================================================================
