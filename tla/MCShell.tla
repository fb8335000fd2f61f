------------------------------- MODULE MCShell -------------------------------
(***************************************************************************)
(* Instances of Shell for TLC.                                             *)
(***************************************************************************)
EXTENDS Shell

\* A name the generator does not use.  (An empty one makes it choose.)
OwnNames == {"mine"}

\* What the memory of the two tick counters happens to hold.
Junk == {3}
=============================================================================
