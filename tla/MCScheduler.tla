---------------------------- MODULE MCScheduler -----------------------------
(***************************************************************************)
(* Scheduler for TLC: small programs that reach every effect of a command. *)
(***************************************************************************)
EXTENDS Scheduler, TLC

\* A process that sleeps half way, and one that ends with a violation.
MixedPrograms == {<<"sleep", "plain">>, <<"plain", "violate">>}

\* Three commands of which the last is a sleep: wakes with nothing left to do.
LongPrograms == {<<"plain", "plain", "sleep">>}

\* FOR(2, READ x 70000, SLEEP 5) as the only command.
LoopPrograms == {<<"violate_sleep">>}

Symmetry == Permutations(Process) \cup Permutations(Core)
=============================================================================
