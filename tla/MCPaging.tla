------------------------------ MODULE MCPaging ------------------------------
(***************************************************************************)
(* Paging for TLC.  The only addition is a bound on the clock of frame     *)
(* loads, without which the counters grow for ever.                        *)
(***************************************************************************)
EXTENDS Paging, TLC

CONSTANT MaxLoads

Loads == pager'.frameClock <= MaxLoads

MCNext == Next /\ Loads

MCSpec == Init /\ [][MCNext]_vars

Symmetry == Permutations(Pid)
=============================================================================
