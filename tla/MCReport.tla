------------------------------ MODULE MCReport -------------------------------
(***************************************************************************)
(* Two processes around noon and midnight.                                 *)
(***************************************************************************)
EXTENDS Report

At(day, hour) == [day |-> day, hour |-> hour]

\* 11 AM, 12 PM, 11 PM, and 12 AM and 1 AM of the next day
Hours == <<At(1, 11), At(1, 12), At(1, 23), At(2, 0), At(2, 1)>>

Symmetry == Permutations(Process)
=============================================================================
