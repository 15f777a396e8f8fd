-------------------------- MODULE AtomicAccumulator --------------------------
(***************************************************************************)
(* What Engine::updateCounter promises its callers (spec 3 and 8): each   *)
(* call adds its weight to the shared accumulator in one indivisible      *)
(* step, returns true exactly when the sum reached the interval, and      *)
(* leaves the remainder sum % interval behind.  A call is entered, may be *)
(* pending for a while, and then takes effect at once; the sum is an      *)
(* unbounded natural here, so this is the contract without word overflow. *)
(***************************************************************************)
EXTENDS Naturals

CONSTANTS Callers, Weights, Intervals, MaxCalls

VARIABLES
    counter,    \* the accumulator
    interval,   \* the event source's interval
    busy,       \* callers inside a call that has not yet taken effect
    value,      \* each caller's weight argument
    calls,      \* calls each caller has made
    added,      \* total weight of the calls that took effect
    fired       \* number of calls that returned true

vars == <<counter, interval, busy, value, calls, added, fired>>

Init ==
    /\ counter = 0
    /\ interval \in Intervals
    /\ busy = [c \in Callers |-> FALSE]
    /\ value = [c \in Callers |-> 0]
    /\ calls = [c \in Callers |-> 0]
    /\ added = 0 /\ fired = 0

\* a call: with an interval of at most 1 it records at once, otherwise it
\* becomes pending
Enter(c) ==
    /\ ~busy[c] /\ calls[c] < MaxCalls
    /\ calls' = [calls EXCEPT ![c] = @ + 1]
    /\ \E v \in Weights :
          /\ value' = [value EXCEPT ![c] = v]
          /\ IF interval <= 1
             THEN added' = added + v /\ fired' = fired + 1 /\ UNCHANGED busy
             ELSE busy' = [busy EXCEPT ![c] = TRUE] /\ UNCHANGED <<added, fired>>
    /\ UNCHANGED <<counter, interval>>

\* the pending call takes effect atomically and returns
TakeEffect(c) ==
    /\ busy[c]
    /\ counter' = (counter + value[c]) % interval
    /\ fired' = IF counter + value[c] >= interval THEN fired + 1 ELSE fired
    /\ added' = added + value[c]
    /\ busy' = [busy EXCEPT ![c] = FALSE]
    /\ UNCHANGED <<interval, value, calls>>

Next == \E c \in Callers : Enter(c) \/ TakeEffect(c)

Spec == Init /\ [][Next]_vars

=============================================================================
