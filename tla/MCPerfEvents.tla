---------------------------- MODULE MCPerfEvents ----------------------------
(***************************************************************************)
(* Model-checking instance of PerfEvents: two thread ids, one more        *)
(* descriptor number than threads so that a leaked counter can show up,  *)
(* and two ring pages.  pid_max is 2 at every start, or, for the runs     *)
(* about a sysctl change of kernel.pid_max, 1 or 2 at each start.        *)
(***************************************************************************)
EXTENDS PerfEvents

MCTids == 0..1
MCMaxEvents == 2
MCPidMaxes == {2}
MCPidMaxesChanging == {1, 2}
MCFdNums == 1..3
MCPageIds == 1..2

=============================================================================
