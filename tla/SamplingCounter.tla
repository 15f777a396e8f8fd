--------------------------- MODULE SamplingCounter ---------------------------
(***************************************************************************)
(* Engine::updateCounter (src/ddprof-lib/src/main/cpp/engine.h): a shared *)
(* unsigned accumulator that callers on any thread add an event's weight  *)
(* to, with a compare-and-swap retry loop; the call returns true ("record *)
(* a sample") when the sum reaches the interval, keeping next % interval. *)
(*                                                                         *)
(* Each caller's load of the counter and its CAS are separate steps, so   *)
(* every interleaving of concurrent callers is explored.  Two ghost       *)
(* variables count what the callers have contributed: the weight of the   *)
(* calls whose CAS succeeded, and the number of calls that returned true. *)
(***************************************************************************)
EXTENDS Naturals

CONSTANTS
    Callers,    \* threads calling updateCounter concurrently
    Weights,    \* event weights a call may pass as value
    Intervals,  \* sampling intervals the event source may be configured with
    W,          \* width of unsigned long long in the model
    MaxCalls    \* calls per caller (bounds the run)

ASSUME /\ Weights \subseteq Nat /\ Intervals \subseteq Nat
       /\ W \in Nat \ {0} /\ MaxCalls \in Nat

WordMax == 2^W          \* arithmetic on unsigned long long is modulo 2^W

VARIABLES
    counter,    \* the shared accumulator
    interval,   \* the interval argument (fixed per event source)
    pc,         \* "idle", "load" or "cas" per caller
    value,      \* the caller's value argument
    prev,       \* the caller's local prev
    calls,      \* calls each caller has made
    added,      \* ghost: total weight of calls whose update took effect
    fired       \* ghost: number of calls that returned true

vars == <<counter, interval, pc, value, prev, calls, added, fired>>

TypeOK ==
    /\ interval \in Intervals
    /\ counter \in 0..(IF interval > 1 THEN interval - 1 ELSE 0)
    /\ pc \in [Callers -> {"idle", "load", "cas"}]
    /\ value \in [Callers -> Weights \cup {0}]
    /\ prev \in [Callers -> 0..(WordMax - 1)]
    /\ calls \in [Callers -> 0..MaxCalls]
    /\ added \in Nat /\ fired \in Nat

Init ==
    /\ counter = 0
    /\ interval \in Intervals
    /\ pc = [c \in Callers |-> "idle"]
    /\ value = [c \in Callers |-> 0]
    /\ prev = [c \in Callers |-> 0]
    /\ calls = [c \in Callers |-> 0]
    /\ added = 0 /\ fired = 0

\* returning from updateCounter with result r
Return(c, r) ==
    /\ pc' = [pc EXCEPT ![c] = "idle"]
    /\ fired' = IF r THEN fired + 1 ELSE fired

\* entry: if (interval <= 1) return true
Call(c) ==
    /\ pc[c] = "idle" /\ calls[c] < MaxCalls
    /\ calls' = [calls EXCEPT ![c] = @ + 1]
    /\ \E v \in Weights :
          /\ value' = [value EXCEPT ![c] = v]
          /\ IF interval <= 1
             THEN Return(c, TRUE) /\ added' = added + v
             ELSE pc' = [pc EXCEPT ![c] = "load"] /\ UNCHANGED <<added, fired>>
    /\ UNCHANGED <<counter, interval, prev>>

\* unsigned long long prev = counter
Load(c) ==
    /\ pc[c] = "load"
    /\ prev' = [prev EXCEPT ![c] = counter]
    /\ pc' = [pc EXCEPT ![c] = "cas"]
    /\ UNCHANGED <<counter, interval, value, calls, added, fired>>

\* next = prev + value, modulo the word width
NextCount(c) == (prev[c] + value[c]) % WordMax

\* Fault-injected variant: the crossing branch stores next unreduced.
InstallsUnreduced(c) == NextCount(c)

\* the value the CAS installs: next below the interval, else next % interval
Installs(c) == IF NextCount(c) < interval THEN NextCount(c)
                                          ELSE NextCount(c) % interval

\* Fault-injected variant: a plain store instead of the CAS.
UpdateCasStore(c) ==
    /\ pc[c] = "cas"
    /\ counter' = Installs(c)
    /\ added' = added + value[c]
    /\ Return(c, NextCount(c) >= interval)
    /\ UNCHANGED <<interval, value, prev, calls>>

\* __sync_bool_compare_and_swap(&counter, prev, next or next % interval):
\* on success return next >= interval, on failure loop to the load
UpdateCas(c) ==
    /\ pc[c] = "cas"
    /\ IF counter = prev[c]
       THEN /\ counter' = Installs(c)
            /\ added' = added + value[c]
            /\ Return(c, NextCount(c) >= interval)
       ELSE /\ pc' = [pc EXCEPT ![c] = "load"]
            /\ UNCHANGED <<counter, added, fired>>
    /\ UNCHANGED <<interval, value, prev, calls>>

Next == \E c \in Callers : Call(c) \/ Load(c) \/ UpdateCas(c)

Spec == Init /\ [][Next]_vars

(***************************************************************************)
(* Properties.                                                            *)
(***************************************************************************)

\* Spec 3 and 8: the accumulator signals "record" exactly once per interval
\* crossing and carries the remainder, so after weights summing to added
\* it has fired added \div interval times and holds added % interval, however
\* the weights are chunked and however concurrent callers' CAS loops
\* interleave.
FiresPerCrossing ==
    interval > 1 => /\ fired = added \div interval
                    /\ counter = added % interval


\* Refinement mapping: a caller is inside the abstract call from its entry
\* until its CAS succeeds; its loads and failed CASes are stuttering steps.
Atomic == INSTANCE AtomicAccumulator
          WITH busy <- [c \in Callers |-> pc[c] # "idle"]

\* The CAS loop is linearizable: every behaviour of concurrent callers,
\* with their loads and CASes interleaved, is a behaviour of callers that
\* each add their weight atomically at the successful CAS -- the word
\* arithmetic of prev + value included, so a wrap at 2^W shows up here.
UpdateIsAtomicAdd == Atomic!Spec

=============================================================================
