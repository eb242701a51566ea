------------------------------- MODULE Circuit -------------------------------
(***************************************************************************)
(* What a circuit breaker promises its callers, stated once for the two    *)
(* the platform has: source.Breaker (SourceBreaker) and embedding.Runtime  *)
(* (EmbeddingRuntime).  It opens on Threshold failures in a row, or on one *)
(* that retrying cannot help; it cools down by itself; only a success      *)
(* closes it, and a success always does; nothing else moves it.            *)
(***************************************************************************)
EXTENDS Naturals

CONSTANTS
    Threshold,   \* failures in a row
    Hard         \* whether there are failures that open at once

VARIABLES
    count,       \* failures in a row, up to the threshold
    state        \* "closed", "open", or "cooled" when the next call may pass

Counted == IF count < Threshold THEN count + 1 ELSE count

Init == count = 0 /\ state = "closed"

Succeed == count' = 0 /\ state' = "closed"

Fail ==
    /\ count' = Counted
    /\ state' = IF Counted >= Threshold THEN "open" ELSE state

Refuse ==
    /\ Hard
    /\ count' = Counted
    /\ state' = "open"

Cool ==
    /\ state = "open"
    /\ state' = "cooled"
    /\ UNCHANGED count

Next == Succeed \/ Fail \/ Refuse \/ Cool

Spec == Init /\ [][Next]_<<count, state>>
=============================================================================
