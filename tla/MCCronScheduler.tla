-------------------------- MODULE MCCronScheduler --------------------------
(* Instances of CronScheduler for TLC. *)
EXTENDS CronScheduler, TLC

\* A spec is the period of its firings.
MCNextAfter(s, t) == ((t \div s) + 1) * s

Symmetry == Permutations(Workers)
=============================================================================
