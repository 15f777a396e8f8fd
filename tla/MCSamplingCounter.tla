-------------------------- MODULE MCSamplingCounter --------------------------
(***************************************************************************)
(* Model-checking instance of SamplingCounter: three concurrent callers,  *)
(* two calls each, so that a CAS can fail twice in a row.                 *)
(***************************************************************************)
EXTENDS SamplingCounter, TLC

CONSTANTS c1, c2, c3

MCCallers == {c1, c2, c3}

\* callers are interchangeable: nothing in updateCounter depends on which
\* thread calls it
CallerSymmetry == Permutations(MCCallers)

=============================================================================
