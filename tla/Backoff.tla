------------------------------ MODULE Backoff ------------------------------
(***************************************************************************)
(* WorkerBackoff of src/backoff.rs: a delay that grows by a factor from a  *)
(* minimum to a maximum, and a sleep of half to all of it.  Delays are in  *)
(* units of time that the code truncates to, and the factor is a whole one *)
(* (every use has 2.0).                                                    *)
(***************************************************************************)
EXTENDS Integers

CONSTANTS
    MinDelay,   \* min_delay
    MaxDelay,   \* max_delay
    Multiplier  \* multiplier

ASSUME BackoffAssumption ==
    /\ MinDelay \in Nat \ {0}
    /\ MaxDelay \in Nat /\ MinDelay <= MaxDelay
    /\ Multiplier \in Nat

Larger(a, b) == IF a >= b THEN a ELSE b
Smaller(a, b) == IF a <= b THEN a ELSE b

\* Mutant: the delay is not capped.
NextDelayUncapped(delay) == Larger(delay * Larger(Multiplier, 1), MinDelay)

\* Mutant: the delay does not grow.
NextDelayStuck(delay) == Smaller(Larger(delay, MinDelay), MaxDelay)

\* The delay that follows: .max(min_delay).min(max_delay), and a multiplier
\* below 1 counts as 1.
NextDelay(delay) == Smaller(Larger(delay * Larger(Multiplier, 1), MinDelay), MaxDelay)

\* The sleeps that step_and_get_sleep_duration may return: half of the delay
\* and a jitter below the other half, but at least 1.
Sleeps(delay) == Larger(delay \div 2, 1) .. Larger(delay - 1, 1)
=============================================================================
