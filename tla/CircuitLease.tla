---------------------------- MODULE CircuitLease -----------------------------
(***************************************************************************)
(* What the relay driver promises about the brew circuit, whoever asks and *)
(* however long the control task is delayed: a close is a lease.  It is    *)
(* granted for a limited number of ticks, no tick passes once they are     *)
(* used up, and the circuit may be opened at any time.  The hard cap       *)
(* (HARD_MAX_CIRCUIT_CLOSED_MS) bounds every lease.                        *)
(***************************************************************************)
EXTENDS Integers

CONSTANTS HardMax, Limits

VARIABLES
    closed,   \* the circuit is commanded closed
    left      \* ticks left of the lease

vars == <<closed, left>>

Init == closed = FALSE /\ left = 0

Grant ==
    /\ ~closed
    /\ closed' = TRUE
    /\ left' \in Limits \cup {HardMax}

Pass ==
    /\ closed /\ left > 0
    /\ left' = left - 1
    /\ UNCHANGED closed

Open ==
    /\ closed
    /\ closed' = FALSE
    /\ left' = 0

Next == Grant \/ Pass \/ Open

Spec == Init /\ [][Next]_vars
=============================================================================
