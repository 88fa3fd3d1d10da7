---------------------------- MODULE MCPerformance ----------------------------
(***************************************************************************)
(* The records of writes, reported by the control goroutine k alone, of    *)
(* long-poll reads, reported by two callers, and of notified listeners,    *)
(* reported by k several at a time.                                        *)
(***************************************************************************)
EXTENDS Performance, TLC

CONSTANTS k, c, d   \* the control goroutine and two callers

MCUsers == "write" :> {k} @@ "longPollRead" :> {c, d}
MCBatch == "write" :> {1} @@ "longPollRead" :> {1}

AffectedUsers == "writeAffected" :> {k}
AffectedBatch == "writeAffected" :> {1, 2}
=============================================================================
